---- MODULE Spec2Model ----
(***************************************************************************)
(* A model of the span pipeline of the RI pilot project:                   *)
(*   deduplication.py   CrossStoreDeduplicator (keyword + semantic spans)  *)
(*   keyword_search.py  KeywordSearcher (occurrence scan, context windows, *)
(*                      _merge_overlapping)                                *)
(*   semantic_search.py SemanticSearcher (_create_chunks, search)          *)
(*   bedrock_classifier.py / run_results_processing.py (batch ids)         *)
(*   activity_classifier.py deduplicate_excerpts                           *)
(*                                                                         *)
(* Every component is a function of its arguments, so each one has its own *)
(* specification: Init draws the arguments from bounded sets and the       *)
(* action applies the function as the code computes it.  The variables of  *)
(* the other components stay at their idle values.                         *)
(*                                                                         *)
(* Floats are modelled exactly: a ratio is a pair <<num, den>> and a       *)
(* comparison with a threshold is done by cross-multiplication.            *)
(***************************************************************************)
EXTENDS Integers, Sequences, FiniteSets, TLC

VARIABLES
    pc,                 \* position of the running component
    keyword_matches,    \* deduplicate(): argument, List[KeywordMatch]
    semantic_matches,   \* deduplicate(): argument, List[SemanticMatch]
    combined_before_sort, \* deduplicate(): combined_matches when the loop of line 73 ends
    final_matches,      \* deduplicate(): the returned List[CombinedMatch]
    dedup_raised,       \* deduplicate(): TRUE when the call raised
    threshold_arg,      \* CrossStoreDeduplicator(overlap_threshold): the argument
    overlap_threshold,  \* CrossStoreDeduplicator: self.overlap_threshold
    matches,            \* _merge_overlapping(): argument, List[KeywordMatch]
    merged,             \* _merge_overlapping(): the returned list
    text,               \* the document given to a searcher
    queries,            \* SemanticSearcher.search(): argument, the query list
    top_k,              \* SemanticSearcher.search(): argument
    chunks,             \* SemanticSearcher.search(): the chunks of _create_chunks
    all_matches,        \* SemanticSearcher.search(): the matches of all queries
    sem_out,            \* SemanticSearcher.search(): the returned List[SemanticMatch]
    all_chunks,         \* the chunks of combined_deduplicated_results.json, in order
    batch_size,         \* prepare_batch_input(): argument
    requests,           \* prepare_batch_input(): the requests of the JSONL file
    classifications,    \* parse_results(): bedrock_classifications.json
    enriched_classifications,  \* run_results_processing.main(): the final records
    keywords,           \* KeywordSearcher(keywords): the keyword list
    keyword_positions,  \* KeywordSearcher.search(): the occurrences found
    results,            \* deduplicate_excerpts(): argument, the record list
    similarity_threshold,  \* deduplicate_excerpts(): argument
    unique_results,     \* deduplicate_excerpts(): the returned list
    rerun_results,      \* deduplicate_excerpts() applied to unique_results
    classifier,         \* the class whose batch job runs
    job_status,         \* the status of the batch job at the service
    response_status,    \* monitor_job(): response['status'] of the last poll
    results_file,       \* download_results(): the returned path
    steps               \* run_bedrock_batch_classification(): the steps called so far

dedupVars == <<keyword_matches, semantic_matches, combined_before_sort, final_matches,
               dedup_raised, threshold_arg, overlap_threshold>>

mergeVars == <<matches, merged>>

semVars == <<queries, top_k, chunks, all_matches, sem_out>>

batchVars == <<all_chunks, batch_size, requests, classifications, enriched_classifications>>

keywordVars == <<keywords, keyword_positions>>

excerptVars == <<results, similarity_threshold, unique_results, rerun_results>>

jobVars == <<classifier, job_status, response_status, results_file, steps>>

vars == <<pc, dedupVars, mergeVars, text, semVars, batchVars, excerptVars, keywordVars,
          jobVars>>

\* The idle values of each component's variables.
JobIdle ==
    /\ classifier = "none"
    /\ job_status = "none"
    /\ response_status = "none"
    /\ results_file = "unset"
    /\ steps = <<>>

DedupIdle ==
    /\ keyword_matches = <<>>
    /\ semantic_matches = <<>>
    /\ combined_before_sort = <<>>
    /\ final_matches = <<>>
    /\ dedup_raised = FALSE
    /\ threshold_arg = <<1, 2>>
    /\ overlap_threshold = <<1, 2>>

MergeIdle ==
    /\ matches = <<>>
    /\ merged = <<>>

SemIdle ==
    /\ queries = <<>>
    /\ top_k = 0
    /\ chunks = <<>>
    /\ all_matches = <<>>
    /\ sem_out = <<>>

TextIdle == text = <<>>

BatchIdle ==
    /\ all_chunks = <<>>
    /\ batch_size = 0
    /\ requests = <<>>
    /\ classifications = <<>>
    /\ enriched_classifications = <<>>

ExcerptIdle ==
    /\ results = <<>>
    /\ similarity_threshold = <<0, 1>>
    /\ unique_results = <<>>
    /\ rerun_results = <<>>

KeywordIdle ==
    /\ keywords = <<>>
    /\ keyword_positions = <<>>

(***************************************************************************)
(* Generic helpers.                                                        *)
(***************************************************************************)
Max(a, b) == IF a >= b THEN a ELSE b

Min(a, b) == IF a <= b THEN a ELSE b

Range(s) == {s[i] : i \in 1..Len(s)}

\* All sequences over S of length at most n.
SeqsUpTo(S, n) == UNION {[1..k -> S] : k \in 0..n}

\* The half-open character range [a, b) as a set of positions.
Positions(a, b) == {p \in a..(b - 1) : TRUE}

\* The positions covered by a list of spans.
Covered(spans) == UNION {Positions(spans[i].char_start, spans[i].char_end) : i \in 1..Len(spans)}

\* r1 >= r2 for ratios <<num, den>> with positive denominators.
RatioGE(r1, r2) == r1[1] * r2[2] >= r2[1] * r1[2]

\* r1 > r2 for ratios <<num, den>> with positive denominators.
RatioGT(r1, r2) == r1[1] * r2[2] > r2[1] * r1[2]

(***************************************************************************)
(* list.sort(key=lambda x: x.char_start) / sorted(...): Python's sort is   *)
(* stable, so equal keys keep their list order (insertion sort).           *)
(***************************************************************************)
RECURSIVE InsertByStart(_, _)
InsertByStart(sorted, m) ==
    IF sorted = <<>> THEN <<m>>
    ELSE IF sorted[Len(sorted)].char_start <= m.char_start THEN Append(sorted, m)
    ELSE Append(InsertByStart(SubSeq(sorted, 1, Len(sorted) - 1), m), sorted[Len(sorted)])

RECURSIVE SortByStart(_)
SortByStart(ms) ==
    IF ms = <<>> THEN <<>>
    ELSE InsertByStart(SortByStart(SubSeq(ms, 1, Len(ms) - 1)), ms[Len(ms)])

(***************************************************************************)
(* deduplication.py: CrossStoreDeduplicator                                *)
(***************************************************************************)
\* Bounds of the deduplicate() arguments.
MaxPos == 3

MaxSpans == 3

MaxScore == 2

\* overlap_threshold = 0.5 as the ratio OverlapThresholdNum / OverlapThresholdDen.
OverlapThresholdNum == 1

OverlapThresholdDen == 2

DefaultOverlapThreshold == <<OverlapThresholdNum, OverlapThresholdDen>>

\* _calculate_overlap(start1, end1, start2, end2): the overlap as a share of
\* the FIRST span's length; 0.0 without overlap or for an empty first span.
CalculateOverlap(start1, end1, start2, end2) ==
    LET overlap_start == Max(start1, start2)
        overlap_end == Min(end1, end2)
    IN  IF overlap_start >= overlap_end THEN <<0, 1>>
        ELSE IF end1 - start1 > 0 THEN <<overlap_end - overlap_start, end1 - start1>>
        ELSE <<0, 1>>

\* The KeywordMatch and SemanticMatch values deduplicate() is given.  chunk_id
\* is the matcher's running number; text, matched_query and sector do not
\* influence positions, sources, scores, keywords or found_by and are left
\* out of the records.  Every KeywordMatch has a list object of its own as
\* matched_keywords.
KeywordMatchAt(i, a, b, kws) ==
    [chunk_id |-> <<"keyword", i - 1>>, char_start |-> a, char_end |-> b,
     matched_keywords |-> kws]

\* The matched_keywords lists of the given KeywordMatch objects.
KeywordChoices == {<<"flood">>, <<"risk">>}

SemanticMatchAt(i, a, b, score) ==
    [chunk_id |-> <<"semantic", i - 1>>, char_start |-> a, char_end |-> b,
     similarity_score |-> score]

Intervals == {ab \in (0..MaxPos) \X (0..MaxPos) : ab[1] < ab[2]}

KeywordLists ==
    {[i \in 1..Len(s) |-> KeywordMatchAt(i, s[i][1][1], s[i][1][2], s[i][2])] :
        s \in SeqsUpTo(Intervals \X KeywordChoices, MaxSpans)}

\* list(set(xs)): the distinct elements, in an order the set decides.
RECURSIVE ListOfSet(_)
ListOfSet(S) ==
    IF S = {} THEN <<>>
    ELSE LET x == CHOOSE y \in S : TRUE
         IN  <<x>> \o ListOfSet(S \ {x})

\* keywords_list of a span whose matched_keywords list no KeywordMatch holds.
OwnList == <<"own", 0>>

SemanticListsUpTo(n) ==
    {[i \in 1..Len(s) |-> SemanticMatchAt(i, s[i][1][1], s[i][1][2], s[i][2])] :
        s \in SeqsUpTo(Intervals \X (1..MaxScore), n)}

\* Lines 57-67: every keyword match becomes a CombinedMatch, in input order.
\* Line 64 passes kw_match.matched_keywords itself, not a copy: keywords_list
\* names the list object the field refers to (the chunk_id of the KeywordMatch
\* that holds the same object, or OwnList), and matched_keywords is what that
\* object contains.  extended records the in-place writes made through the
\* span to lists of KeywordMatch objects, as pairs <<chunk_id, new contents>>.
\* members (the chunk_ids merged into the span) is a history field.
SeedKeyword(kw_match) ==
    [chunk_id |-> kw_match.chunk_id,
     char_start |-> kw_match.char_start,
     char_end |-> kw_match.char_end,
     sources |-> <<"keyword_search">>,
     matched_keywords |-> kw_match.matched_keywords,
     keywords_list |-> kw_match.chunk_id,
     extended |-> {},
     similarity_score |-> 0,
     found_by |-> "keyword_only",
     members |-> {kw_match.chunk_id}]

SeedKeywords(kws) == [i \in 1..Len(kws) |-> SeedKeyword(kws[i])]

\* Line 87: the score an absorbing span takes from the absorbed semantic match.
AbsorbedScore(combined, sem_match) == sem_match.similarity_score

\* Lines 86-98: merge the semantic match into the overlapping combined span.
AbsorbSemantic(combined, sem_match) ==
    [combined EXCEPT
        !.sources = Append(@, "semantic_search"),
        !.similarity_score = AbsorbedScore(combined, sem_match),
        !.found_by = "both",
        !.char_start = Min(@, sem_match.char_start),
        !.char_end = Max(@, sem_match.char_end),
        !.members = @ \cup {sem_match.chunk_id}]

\* Lines 77-84: is combined a span with the keyword source that sem_match
\* overlaps by at least the threshold (share of the semantic match's length)?
IsAbsorber(combined, sem_match) ==
    /\ "keyword_search" \in Range(combined.sources)
    /\ RatioGE(CalculateOverlap(sem_match.char_start, sem_match.char_end,
                                combined.char_start, combined.char_end),
               overlap_threshold)

\* Mutant of NewSemanticOnly: every new span gets the chunk_id combined_0000.
NewSemanticOnly_FixedId(combined_matches, sem_match) ==
    [chunk_id |-> <<"combined", 0>>,
     char_start |-> sem_match.char_start,
     char_end |-> sem_match.char_end,
     sources |-> <<"semantic_search">>,
     matched_keywords |-> <<>>,
     keywords_list |-> OwnList,
     extended |-> {},
     similarity_score |-> sem_match.similarity_score,
     found_by |-> "semantic_only",
     members |-> {sem_match.chunk_id}]

\* Lines 106-117: a semantic match nothing absorbed becomes a span of its own.
NewSemanticOnly(combined_matches, sem_match) ==
    [chunk_id |-> <<"combined", Len(combined_matches)>>,
     char_start |-> sem_match.char_start,
     char_end |-> sem_match.char_end,
     sources |-> <<"semantic_search">>,
     matched_keywords |-> <<>>,
     keywords_list |-> OwnList,
     extended |-> {},
     similarity_score |-> sem_match.similarity_score,
     found_by |-> "semantic_only",
     members |-> {sem_match.chunk_id}]

\* Mutant of ProcessSemantic: the last absorber in list order takes the
\* semantic match.
ProcessSemantic_LastAbsorber(combined_matches, sem_match) ==
    LET absorbers == {i \in 1..Len(combined_matches) : IsAbsorber(combined_matches[i], sem_match)}
    IN  IF absorbers # {}
        THEN LET last == CHOOSE i \in absorbers : \A j \in absorbers : i >= j
             IN  [combined_matches EXCEPT ![last] = AbsorbSemantic(@, sem_match)]
        ELSE Append(combined_matches, NewSemanticOnly(combined_matches, sem_match))

\* Lines 73-118, one iteration: the first absorber in list order takes the
\* semantic match (break), otherwise it is appended.
ProcessSemantic(combined_matches, sem_match) ==
    LET absorbers == {i \in 1..Len(combined_matches) : IsAbsorber(combined_matches[i], sem_match)}
    IN  IF absorbers # {}
        THEN LET first == CHOOSE i \in absorbers : \A j \in absorbers : i <= j
             IN  [combined_matches EXCEPT ![first] = AbsorbSemantic(@, sem_match)]
        ELSE Append(combined_matches, NewSemanticOnly(combined_matches, sem_match))

RECURSIVE ProcessSemantics(_, _)
ProcessSemantics(combined_matches, sems) ==
    IF sems = <<>> THEN combined_matches
    ELSE ProcessSemantics(ProcessSemantic(combined_matches, Head(sems)), Tail(sems))

\* Mutant of CombineSources: every source of current is appended.
CombineSources_AppendsAll(last_sources, current_sources) ==
    last_sources \o current_sources

\* Lines 162-164: sources of current that last does not have yet.
RECURSIVE CombineSources(_, _)
CombineSources(last_sources, current_sources) ==
    IF current_sources = <<>> THEN last_sources
    ELSE CombineSources(
            IF Head(current_sources) \in Range(last_sources) THEN last_sources
            ELSE Append(last_sources, Head(current_sources)),
            Tail(current_sources))

\* Mutant of MergedRange: the merge keeps the range of last.
MergedRange_KeepsLast(last, current) ==
    <<last.char_start, last.char_end>>

\* Lines 181-182: the range of last after current is merged into it.
MergedRange(last, current) ==
    <<Min(last.char_start, current.char_start), Max(last.char_end, current.char_end)>>

\* Line 167: last.matched_keywords.extend(current.matched_keywords) writes
\* to the list object last refers to; the set of writes to lists that a
\* KeywordMatch holds.
ExtendInPlace(last, current) ==
    IF last.keywords_list = OwnList THEN last.extended
    ELSE last.extended
         \cup {<<last.keywords_list, last.matched_keywords \o current.matched_keywords>>}

\* Lines 160-186: merge current into last (the last span kept so far).  Line
\* 168 binds a new list to last.matched_keywords.
MergeIntoLast(last, current) ==
    LET srcs == CombineSources(last.sources, current.sources)
        rng == MergedRange(last, current)
    IN  [last EXCEPT
            !.sources = srcs,
            !.extended = ExtendInPlace(last, current),
            !.matched_keywords = ListOfSet(Range(last.matched_keywords \o current.matched_keywords)),
            !.keywords_list = OwnList,
            !.similarity_score = IF current.similarity_score > @ THEN current.similarity_score ELSE @,
            !.found_by = IF Len(srcs) > 1 THEN "both" ELSE @,
            !.char_start = rng[1],
            !.char_end = rng[2],
            !.members = @ \cup current.members]

\* Lines 151-189, one iteration of the sweep.
FinalDedupStep(deduplicated, current) ==
    LET last == deduplicated[Len(deduplicated)]
    IN  IF RatioGE(CalculateOverlap(current.char_start, current.char_end,
                                    last.char_start, last.char_end),
                   overlap_threshold)
        THEN [deduplicated EXCEPT ![Len(deduplicated)] = MergeIntoLast(last, current)]
        ELSE Append(deduplicated, current)

RECURSIVE FinalDedupFrom(_, _)
FinalDedupFrom(deduplicated, rest) ==
    IF rest = <<>> THEN deduplicated
    ELSE FinalDedupFrom(FinalDedupStep(deduplicated, Head(rest)), Tail(rest))

\* _final_dedup_pass(matches)
FinalDedupPass(sorted_combined) ==
    IF sorted_combined = <<>> THEN <<>>
    ELSE FinalDedupFrom(<<Head(sorted_combined)>>, Tail(sorted_combined))

\* deduplicate(keyword_matches, semantic_matches) up to line 124.
DeduplicateResult(kws, sems) ==
    FinalDedupPass(SortByStart(ProcessSemantics(SeedKeywords(kws), sems)))

\* The KeywordMatch objects of the caller after the call: the lists that the
\* spans of the result extended in place have their new contents.
KeywordMatchesAfter(kws, result) ==
    LET writes == UNION {result[k].extended : k \in 1..Len(result)}
    IN  [i \in 1..Len(kws) |->
            IF \E w \in writes : w[1] = kws[i].chunk_id
            THEN [kws[i] EXCEPT !.matched_keywords =
                    (CHOOSE w \in writes : w[1] = kws[i].chunk_id)[2]]
            ELSE kws[i]]

InitDedup ==
    /\ pc = "dedup_call"
    /\ JobIdle
    /\ keyword_matches \in KeywordLists
    /\ semantic_matches \in SemanticListsUpTo(MaxSpans - Len(keyword_matches))
    /\ combined_before_sort = <<>>
    /\ final_matches = <<>>
    /\ dedup_raised = FALSE
    /\ threshold_arg = DefaultOverlapThreshold
    /\ overlap_threshold = DefaultOverlapThreshold
    /\ MergeIdle
    /\ SemIdle
    /\ TextIdle
    /\ BatchIdle
    /\ ExcerptIdle
    /\ KeywordIdle

\* The whole call.  Line 140 divides by len(final_matches): with no span to
\* return the call raises ZeroDivisionError instead of returning.
Deduplicate ==
    /\ pc = "dedup_call"
    /\ LET result == DeduplicateResult(keyword_matches, semantic_matches)
       IN  /\ keyword_matches' = KeywordMatchesAfter(keyword_matches, result)
           /\ combined_before_sort' = ProcessSemantics(SeedKeywords(keyword_matches),
                                                   semantic_matches)
           /\ IF result = <<>>
              THEN /\ pc' = "dedup_raised"
                   /\ dedup_raised' = TRUE
                   /\ final_matches' = <<>>
              ELSE /\ pc' = "dedup_done"
                   /\ dedup_raised' = FALSE
                   /\ final_matches' = result
    /\ UNCHANGED <<semantic_matches, threshold_arg, overlap_threshold,
                   mergeVars, text, semVars, batchVars, excerptVars, keywordVars,
                   jobVars>>

NextDedup == Deduplicate

\* process_pad_with_deduplication: the deduplicator is built with the
\* threshold 0.5 and deduplicate is called.
SpecDedup == InitDedup /\ [][NextDedup]_vars

\* The thresholds a caller may give to the constructor: -0.5, 0, 0.5, 1, 1.5.
ThresholdArgs == {<<0 - 1, 2>>, <<0, 1>>, DefaultOverlapThreshold, <<1, 1>>, <<3, 2>>}

InRange(threshold) == RatioGE(threshold, <<0, 1>>) /\ RatioGE(<<1, 1>>, threshold)

InitConstruct ==
    /\ pc = "construct_call"
    /\ JobIdle
    /\ threshold_arg \in ThresholdArgs
    /\ overlap_threshold = DefaultOverlapThreshold
    /\ keyword_matches \in KeywordLists
    /\ semantic_matches \in SemanticListsUpTo(MaxSpans - Len(keyword_matches))
    /\ combined_before_sort = <<>>
    /\ final_matches = <<>>
    /\ dedup_raised = FALSE
    /\ MergeIdle
    /\ SemIdle
    /\ TextIdle
    /\ BatchIdle
    /\ ExcerptIdle
    /\ KeywordIdle

\* CrossStoreDeduplicator.__init__(overlap_threshold): the argument is
\* stored; there is no test of it and no raise.
Construct ==
    /\ pc = "construct_call"
    /\ pc' = "dedup_call"
    /\ overlap_threshold' = threshold_arg
    /\ UNCHANGED <<keyword_matches, semantic_matches, combined_before_sort, final_matches,
                   dedup_raised, threshold_arg, mergeVars, text, semVars, batchVars, excerptVars,
                   keywordVars, jobVars>>

NextConstruct == Construct \/ Deduplicate

SpecConstruct == InitConstruct /\ [][NextConstruct]_vars

\* The input spans of the call, by source.
KeywordInputs == Range(keyword_matches)

SemanticInputs == Range(semantic_matches)

(***************************************************************************)
(* Claims about CrossStoreDeduplicator.deduplicate.                        *)
(***************************************************************************)
\* The input span (of either list) with the given chunk_id.
InputsOf(m) == {x \in KeywordInputs \cup SemanticInputs : x.chunk_id \in m.members}

\* C1: with the default threshold 0.5 and input spans with start < end, the
\* character positions covered by the returned spans are exactly the
\* positions covered by the spans of the two input lists.
C1_CoverPreserved ==
    pc = "dedup_done" =>
        Covered(final_matches) = Covered(keyword_matches) \cup Covered(semantic_matches)

\* C1 witness: the call returned a span that merged several inputs and is
\* strictly wider than one of them.
C1_Witness ==
    /\ pc = "dedup_done"
    /\ \E i \in 1..Len(final_matches) :
        /\ Cardinality(final_matches[i].members) >= 2
        /\ \E x \in InputsOf(final_matches[i]) :
            x.char_end - x.char_start < final_matches[i].char_end - final_matches[i].char_start

\* Spans a and b overlap at threshold: the overlap is at least the threshold
\* as a share of a's length (_calculate_overlap with a as the first span).
OverlapsAtThreshold(a, b) ==
    RatioGE(CalculateOverlap(a.char_start, a.char_end, b.char_start, b.char_end),
            overlap_threshold)

\* C2: a returned span tagged both overlapped, at threshold, an original
\* keyword span and an original semantic span; a span tagged keyword_only
\* (semantic_only) has no original semantic (keyword) span overlapping it at
\* or above the threshold.  The ratio is the reconciler's: the overlap as a
\* share of the semantic span's length (of the keyword span's own length
\* where an original keyword span is compared with the span it went into).
C2_ProvenanceCorrect ==
    pc = "dedup_done" =>
        \A i \in 1..Len(final_matches) :
            LET m == final_matches[i]
            IN  /\ m.found_by = "both" =>
                    /\ \E k \in KeywordInputs : OverlapsAtThreshold(k, m)
                    /\ \E s \in SemanticInputs : OverlapsAtThreshold(s, m)
                /\ m.found_by = "keyword_only" =>
                    ~ \E s \in SemanticInputs : OverlapsAtThreshold(s, m)
                /\ m.found_by = "semantic_only" =>
                    ~ \E k \in KeywordInputs : OverlapsAtThreshold(m, k)

\* The largest similarity_score of a non-empty set of semantic matches.
MaxScoreOf(S) == CHOOSE v \in {s.similarity_score : s \in S} : \A s \in S : s.similarity_score <= v

\* C5: the similarity_score of a returned span is the maximum score of the
\* semantic spans merged into it.
C5_ScoreIsMaxOfMerged ==
    pc = "dedup_done" =>
        \A i \in 1..Len(final_matches) :
            LET absorbed == {s \in SemanticInputs : s.chunk_id \in final_matches[i].members}
            IN  absorbed # {} => final_matches[i].similarity_score = MaxScoreOf(absorbed)

\* C18: a deduplicator built with a threshold outside [0, 1] raises at
\* construction: no call of deduplicate is reached, and none has run, with
\* such a threshold, and the threshold in use is the one given (not clamped).
C18_OutOfRangeThresholdRaises ==
    pc \in {"dedup_call", "dedup_done", "dedup_raised"} =>
        /\ InRange(overlap_threshold)
        /\ overlap_threshold = threshold_arg

\* C19: deduplicate never aliases: no returned span has as matched_keywords
\* the list object of a given KeywordMatch, and the call leaves every given
\* span, its matched_keywords included, as it was.
C19_NeverAliases ==
    /\ [](pc = "dedup_done" =>
            \A i \in 1..Len(final_matches) : final_matches[i].keywords_list = OwnList)
    /\ [][keyword_matches' = keyword_matches /\ semantic_matches' = semantic_matches]_vars

\* C23: in every span deduplicate returns, sources is not empty, holds only
\* keyword_search and semantic_search, and holds each of them at most once,
\* also when several semantic spans were absorbed by the same span.
C23_SourcesIsSet ==
    pc = "dedup_done" =>
        \A i \in 1..Len(final_matches) :
            LET srcs == final_matches[i].sources
            IN  /\ srcs # <<>>
                /\ Range(srcs) \subseteq {"keyword_search", "semantic_search"}
                /\ \A a, b \in 1..Len(srcs) : a # b => srcs[a] # srcs[b]

\* The range of the keyword span number i when the semantic span number j is
\* processed: the hull of the keyword span and of the semantic spans before
\* j that the combined span number i holds.
RangeBefore(i, j) ==
    LET earlier == {m \in 1..(j - 1) :
                        semantic_matches[m].chunk_id \in combined_before_sort[i].members}
        starts == {keyword_matches[i].char_start}
                    \cup {semantic_matches[m].char_start : m \in earlier}
        ends == {keyword_matches[i].char_end}
                    \cup {semantic_matches[m].char_end : m \in earlier}
    IN  <<CHOOSE x \in starts : \A y \in starts : x <= y,
          CHOOSE x \in ends : \A y \in ends : x >= y>>

\* Does the semantic span number j overlap the keyword span number i, as it
\* is when j is processed, by at least the threshold of j's own length?
Reaches(i, j) ==
    LET r == RangeBefore(i, j)
        sem == semantic_matches[j]
        overlap == Min(sem.char_end, r[2]) - Max(sem.char_start, r[1])
    IN  /\ overlap > 0
        /\ overlap * overlap_threshold[2]
              >= overlap_threshold[1] * (sem.char_end - sem.char_start)

\* C24: the combined list starts with the keyword spans in input order; every
\* semantic span is held by exactly one combined span; it is held by the
\* first keyword span, in list order, that it overlaps by at least the
\* threshold of its own length, and by a span of its own, placed after the
\* keyword spans in input order, when there is no such keyword span: a
\* semantic-only span never absorbs.
C24_FirstKeywordSpanAbsorbs ==
    pc = "dedup_done" =>
        LET nk == Len(keyword_matches)
            holders(j) == {i \in 1..Len(combined_before_sort) :
                              semantic_matches[j].chunk_id \in combined_before_sort[i].members}
            reached(j) == {i \in 1..nk : Reaches(i, j)}
        IN  /\ Len(combined_before_sort) >= nk
            /\ \A i \in 1..nk :
                  combined_before_sort[i].chunk_id = keyword_matches[i].chunk_id
            /\ \A i \in (nk + 1)..Len(combined_before_sort) :
                  /\ combined_before_sort[i].sources = <<"semantic_search">>
                  /\ Cardinality(combined_before_sort[i].members) = 1
            /\ \A j \in 1..Len(semantic_matches) :
                  /\ Cardinality(holders(j)) = 1
                  /\ \A i \in holders(j) :
                        IF reached(j) # {}
                        THEN i \in reached(j) /\ \A k \in reached(j) : i <= k
                        ELSE i > nk
            /\ \A j1, j2 \in 1..Len(semantic_matches) :
                  \A i1 \in holders(j1), i2 \in holders(j2) :
                      (j1 < j2 /\ i1 > nk /\ i2 > nk) => i1 < i2

\* C24 witness, the scenario in units of 50 characters: the keyword span
\* [0, 2) and the semantic span [1, 3), which overlaps it by exactly half of
\* its own length, came back as the one span [0, 3) found by both.
C24_Witness ==
    /\ pc = "dedup_done"
    /\ Len(keyword_matches) = 1
    /\ Len(semantic_matches) = 1
    /\ <<keyword_matches[1].char_start, keyword_matches[1].char_end>> = <<0, 2>>
    /\ <<semantic_matches[1].char_start, semantic_matches[1].char_end>> = <<1, 3>>
    /\ Len(final_matches) = 1
    /\ <<final_matches[1].char_start, final_matches[1].char_end>> = <<0, 3>>
    /\ final_matches[1].found_by = "both"

\* C27: in every span deduplicate returns, found_by is both exactly when
\* sources holds keyword_search and semantic_search, keyword_only exactly
\* when it holds only keyword_search, and semantic_only exactly when it holds
\* only semantic_search; it is never empty.
C27_FoundByAgreesWithSources ==
    pc = "dedup_done" =>
        \A i \in 1..Len(final_matches) :
            LET found_by == final_matches[i].found_by
                srcs == Range(final_matches[i].sources)
            IN  /\ found_by \in {"both", "keyword_only", "semantic_only"}
                /\ (found_by = "both") = (srcs = {"keyword_search", "semantic_search"})
                /\ (found_by = "keyword_only") = (srcs = {"keyword_search"})
                /\ (found_by = "semantic_only") = (srcs = {"semantic_search"})

\* C27 witness: the final pass merged a keyword span into a semantic-only
\* span, which is returned as found by both, next to a semantic-only span.
C27_Witness ==
    /\ pc = "dedup_done"
    /\ \E i, j \in 1..Len(final_matches) :
        /\ final_matches[i].sources = <<"semantic_search", "keyword_search">>
        /\ final_matches[i].found_by = "both"
        /\ final_matches[j].found_by = "semantic_only"

\* C28: deduplicate called with no keyword span and no semantic span returns
\* the empty list and does not raise.
C28_EmptyInputsReturnEmpty ==
    (keyword_matches = <<>> /\ semantic_matches = <<>> /\ pc # "dedup_call") =>
        /\ pc = "dedup_done"
        /\ ~ dedup_raised
        /\ final_matches = <<>>

(***************************************************************************)
(* keyword_search.py: KeywordSearcher._merge_overlapping                   *)
(***************************************************************************)
\* Bounds of the _merge_overlapping() argument.
MaxOffset == 4

MaxMatches == 3

\* The lengths of the texts of the matches given to _merge_overlapping().
TextLens == {1, 2}

\* The merge threshold 0.5 of line 250 as MergeThresholdNum / MergeThresholdDen.
MergeThresholdNum == 1

MergeThresholdDen == 2

merge_threshold == <<MergeThresholdNum, MergeThresholdDen>>

\* A KeywordMatch as _merge_overlapping() reads it.  The text is n characters
\* that name its owner (the sweep only compares len(text)).
WindowMatch(i, a, b, n) ==
    [chunk_id |-> <<"keyword", i - 1>>,
     char_start |-> a,
     char_end |-> b,
     matched_keywords |-> {<<"kw", i - 1>>},
     text |-> [k \in 1..n |-> <<"keyword", i - 1>>]]

Windows == {ab \in (0..MaxOffset) \X (0..MaxOffset) : ab[1] < ab[2]}

MatchLists ==
    {[i \in 1..Len(s) |-> WindowMatch(i, s[i][1][1], s[i][1][2], s[i][2])] :
        s \in SeqsUpTo(Windows \X TextLens, MaxMatches)}

\* Lines 244-248: the overlap of last and current as a share of last's length
\* (0 when they do not overlap).
MergeOverlapRatio(last, current) ==
    LET overlap_start == Max(last.char_start, current.char_start)
        overlap_end == Min(last.char_end, current.char_end)
    IN  IF overlap_start < overlap_end
        THEN <<overlap_end - overlap_start, last.char_end - last.char_start>>
        ELSE <<0, 1>>

\* Lines 247-250: merge when the spans overlap and the ratio exceeds 0.5.
ShouldMerge(last, current) ==
    RatioGT(MergeOverlapRatio(last, current), merge_threshold)

\* Mutant of MergeKeywordMatch: the text of last is always kept.
MergeKeywordMatch_KeepsText(last, current) ==
    [last EXCEPT
        !.matched_keywords = @ \cup current.matched_keywords,
        !.char_end = Max(@, current.char_end)]

\* Lines 252-256: current merged into last.
MergeKeywordMatch(last, current) ==
    [last EXCEPT
        !.matched_keywords = @ \cup current.matched_keywords,
        !.char_end = Max(@, current.char_end),
        !.text = IF Len(current.text) > Len(@) THEN current.text ELSE @]

\* Lines 240-259, one iteration of the sweep.
MergeStep(acc, current) ==
    LET last == acc[Len(acc)]
    IN  IF ShouldMerge(last, current)
        THEN [acc EXCEPT ![Len(acc)] = MergeKeywordMatch(last, current)]
        ELSE Append(acc, current)

RECURSIVE MergeFrom(_, _)
MergeFrom(acc, rest) ==
    IF rest = <<>> THEN acc
    ELSE MergeFrom(MergeStep(acc, Head(rest)), Tail(rest))

\* _merge_overlapping(matches)
MergeOverlapping(ms) ==
    IF ms = <<>> THEN <<>>
    ELSE LET sorted_matches == SortByStart(ms)
         IN  MergeFrom(<<Head(sorted_matches)>>, Tail(sorted_matches))

InitMerge ==
    /\ pc = "merge_call"
    /\ JobIdle
    /\ matches \in MatchLists
    /\ merged = <<>>
    /\ DedupIdle
    /\ SemIdle
    /\ TextIdle
    /\ BatchIdle
    /\ ExcerptIdle
    /\ KeywordIdle

CallMergeOverlapping ==
    /\ pc = "merge_call"
    /\ pc' = "merge_done"
    /\ merged' = MergeOverlapping(matches)
    /\ UNCHANGED <<matches, dedupVars, text, semVars, batchVars, excerptVars, keywordVars,
                   jobVars>>

NextMerge == CallMergeOverlapping

SpecMerge == InitMerge /\ [][NextMerge]_vars

(***************************************************************************)
(* Claims about KeywordSearcher._merge_overlapping.                        *)
(***************************************************************************)
\* C3: in the list _merge_overlapping returns, every adjacent pair (i, i+1)
\* in position order has an overlap of strictly less than 0.5 of the length
\* of span i.
C3_AdjacentBelowHalf ==
    pc = "merge_done" =>
        \A i \in 1..(Len(merged) - 1) :
            ~ RatioGE(MergeOverlapRatio(merged[i], merged[i + 1]), merge_threshold)

\* The spans number a to b of the sorted list, merged one after the other
\* into the first, as the claim describes a merge: the keywords of all, the
\* least start, the greatest end, and the first of the longest texts.
RunSummary(sorted, a, b) ==
    LET run == a..b
        longest == {j \in run : \A k \in run : Len(sorted[j].text) >= Len(sorted[k].text)}
        first_longest == CHOOSE j \in longest : \A k \in longest : j <= k
    IN  [chunk_id |-> sorted[a].chunk_id,
         char_start |-> CHOOSE x \in {sorted[j].char_start : j \in run} :
                            \A j \in run : x <= sorted[j].char_start,
         char_end |-> CHOOSE x \in {sorted[j].char_end : j \in run} :
                            \A j \in run : x >= sorted[j].char_end,
         matched_keywords |-> UNION {sorted[j].matched_keywords : j \in run},
         text |-> sorted[first_longest].text]

\* C26: the list _merge_overlapping returns is the position-sorted input cut
\* into runs of neighbours, one returned span per run (a span is merged only
\* into the last retained span): the span has the union of the keywords of
\* its run, the range [min(start), max(end)] of its run, and the longer text
\* at every merge.
C26_MergeSemantics ==
    pc = "merge_done" =>
        LET sorted == SortByStart(matches)
            n == Len(sorted)
            m == Len(merged)
        IN  /\ m <= n
            /\ (m = 0) = (n = 0)
            /\ \E first \in [1..m -> 1..n] :
                  /\ m > 0 => first[1] = 1
                  /\ \A k \in 1..(m - 1) : first[k] < first[k + 1]
                  /\ \A k \in 1..m :
                        merged[k] = RunSummary(sorted, first[k],
                                               IF k = m THEN n ELSE first[k + 1] - 1)

\* C26 witness: the second span was merged into the first, and the span
\* returned has the keywords of both and the longer text of the second.
C26_Witness ==
    /\ pc = "merge_done"
    /\ Len(matches) = 2
    /\ Len(merged) = 1
    /\ merged[1].matched_keywords = matches[1].matched_keywords \cup matches[2].matched_keywords
    /\ matches[1].char_start < matches[2].char_start
    /\ matches[1].char_end < matches[2].char_end
    /\ merged[1].char_end = matches[2].char_end
    /\ Len(matches[2].text) > Len(matches[1].text)
    /\ merged[1].text = matches[2].text

(***************************************************************************)
(* Strings.  A str is a sequence of one-character strings; Python's        *)
(* 0-based slice s[a:b] is Slice(s, a, b).                                 *)
(***************************************************************************)
IsSpace(c) == c \in {" ", "\n"}

Slice(s, a, b) ==
    LET lo == Max(a, 0)
        hi == Min(b, Len(s))
    IN  IF lo >= hi THEN <<>> ELSE SubSeq(s, lo + 1, hi)

\* A run of n copies of the character c.
RunOf(c, n) == [i \in 1..n |-> c]

\* The number of whitespace characters at the start / at the end of s.
RECURSIVE LeadingSpaces(_, _)
LeadingSpaces(s, n) ==
    IF n < Len(s) /\ IsSpace(s[n + 1]) THEN LeadingSpaces(s, n + 1) ELSE n

RECURSIVE TrailingSpaces(_, _)
TrailingSpaces(s, n) ==
    IF n < Len(s) /\ IsSpace(s[Len(s) - n]) THEN TrailingSpaces(s, n + 1) ELSE n

\* str.strip()
Strip(s) ==
    LET l == LeadingSpaces(s, 0)
    IN  IF l = Len(s) THEN <<>> ELSE SubSeq(s, l + 1, Len(s) - TrailingSpaces(s, 0))

\* str.split('\n\n'): the separators are found left to right, not overlapping.
RECURSIVE SplitParagraphs(_)
SplitParagraphs(s) ==
    LET seps == {i \in 1..(Len(s) - 1) : s[i] = "\n" /\ s[i + 1] = "\n"}
    IN  IF seps = {} THEN <<s>>
        ELSE LET i == CHOOSE x \in seps : \A y \in seps : x <= y
             IN  <<SubSeq(s, 1, i - 1)>> \o SplitParagraphs(SubSeq(s, i + 2, Len(s)))

\* str.lower() on the model's alphabet.
LowerChar(c) ==
    IF c = "A" THEN "a" ELSE IF c = "B" THEN "b" ELSE IF c = "F" THEN "f"
    ELSE IF c = "P" THEN "p" ELSE c

Lower(s) == [i \in 1..Len(s) |-> LowerChar(s[i])]

RECURSIVE Concat(_)
Concat(ss) == IF ss = <<>> THEN <<>> ELSE Head(ss) \o Concat(Tail(ss))

(***************************************************************************)
(* semantic_search.py: SemanticSearcher                                    *)
(***************************************************************************)
\* search() calls _create_chunks(text, chunk_size=500, overlap=100).
ChunkSize == 500

ChunkOverlap == 100

\* top_k defaults to 10.
TopKDefault == 10

\* Bounds of the documents: at most MaxDocBlocks blocks, a block being one
\* character, a blank line, or a paragraph of ShortParaLen or LongParaLen
\* characters.
MaxDocBlocks == 3

ShortParaLen == 50

LongParaLen == 480

DocBlocks ==
    {<<"a">>, <<" ">>, <<"\n", "\n">>, RunOf("a", ShortParaLen), RunOf("a", LongParaLen)}

Docs == {Concat(bs) : bs \in SeqsUpTo(DocBlocks, MaxDocBlocks)}

\* The numbers of queries, the values of top_k, and the similarity scores
\* the embedding model may give (in units of 1/2).
QueryLists == {<<>>, <<"q1">>, <<"q1", "q2">>}

TopKs == {1, TopKDefault}

Similarities == {1, 2}

\* Lines 52-78, one iteration of the paragraph loop.  The loop state is
\* [chunks, current_chunk, chunk_start, current_pos].
ChunkStep(st, raw_para, chunk_size, overlap) ==
    LET para == Strip(raw_para)
    IN  IF para = <<>>
        THEN [st EXCEPT !.current_pos = @ + 2]
        ELSE IF Len(st.current_chunk) + Len(para) > chunk_size /\ st.current_chunk # <<>>
        THEN LET overlap_text ==
                    IF Len(st.current_chunk) > overlap
                    THEN SubSeq(st.current_chunk, Len(st.current_chunk) - overlap + 1,
                                Len(st.current_chunk))
                    ELSE st.current_chunk
             IN  [chunks |-> Append(st.chunks,
                                    [text |-> Strip(st.current_chunk),
                                     start |-> st.chunk_start,
                                     end |-> st.current_pos]),
                  current_chunk |-> overlap_text \o <<" ">> \o para,
                  chunk_start |-> st.current_pos - Len(overlap_text),
                  current_pos |-> st.current_pos + Len(para) + 2]
        ELSE [chunks |-> st.chunks,
              current_chunk |-> IF st.current_chunk # <<>>
                                THEN st.current_chunk \o <<" ">> \o para
                                ELSE para,
              chunk_start |-> IF st.current_chunk # <<>> THEN st.chunk_start
                              ELSE st.current_pos,
              current_pos |-> st.current_pos + Len(para) + 2]

\* Mutant of ChunkLoop: every paragraph is taken with chunk_size 0.
RECURSIVE ChunkLoop_ZeroSize(_, _, _, _)
ChunkLoop_ZeroSize(st, paragraphs, chunk_size, overlap) ==
    IF paragraphs = <<>> THEN st
    ELSE ChunkLoop_ZeroSize(ChunkStep(st, Head(paragraphs), 0, overlap),
                            Tail(paragraphs), chunk_size, overlap)

RECURSIVE ChunkLoop(_, _, _, _)
ChunkLoop(st, paragraphs, chunk_size, overlap) ==
    IF paragraphs = <<>> THEN st
    ELSE ChunkLoop(ChunkStep(st, Head(paragraphs), chunk_size, overlap),
                   Tail(paragraphs), chunk_size, overlap)

\* Mutant of CreateChunks: the final chunk is appended even when it is empty.
CreateChunks_AlwaysFinal(doc, chunk_size, overlap) ==
    LET st == ChunkLoop([chunks |-> <<>>, current_chunk |-> <<>>,
                         chunk_start |-> 0, current_pos |-> 0],
                        SplitParagraphs(doc), chunk_size, overlap)
    IN  Append(st.chunks, [text |-> Strip(st.current_chunk),
                           start |-> st.chunk_start,
                           end |-> st.current_pos])

\* _create_chunks(text, chunk_size, overlap): a list of (chunk_text, start, end).
CreateChunks(doc, chunk_size, overlap) ==
    LET st == ChunkLoop([chunks |-> <<>>, current_chunk |-> <<>>,
                         chunk_start |-> 0, current_pos |-> 0],
                        SplitParagraphs(doc), chunk_size, overlap)
    IN  IF st.current_chunk # <<>>
        THEN Append(st.chunks, [text |-> Strip(st.current_chunk),
                                start |-> st.chunk_start,
                                end |-> st.current_pos])
        ELSE st.chunks

\* The permutations of 1..n, as sequences.
Perms(n) == {f \in [1..n -> 1..n] : \A i, j \in 1..n : i # j => f[i] # f[j]}

\* Line 146: torch.argsort(similarities, descending=True) is some order of
\* the chunk indices with non-increasing similarity (ties in any order).
ArgsortsDescending(sims) ==
    {f \in Perms(Len(sims)) : \A i \in 1..(Len(sims) - 1) : sims[f[i]] >= sims[f[i + 1]]}

\* Lines 151-165: the matches of one query, appended to the matches so far.
RECURSIVE AddTopMatches(_, _, _, _, _)
AddTopMatches(so_far, top_indices, sims, query, cs) ==
    IF top_indices = <<>> THEN so_far
    ELSE LET idx == Head(top_indices)
         IN  AddTopMatches(
                Append(so_far,
                       [chunk_id |-> <<"semantic", Len(so_far)>>,
                        text |-> cs[idx].text,
                        similarity_score |-> sims[idx],
                        matched_query |-> query,
                        sector |-> query,
                        char_start |-> cs[idx].start,
                        char_end |-> cs[idx].end]),
                Tail(top_indices), sims, query, cs)

\* Lines 122-167: all queries in order; sim[q] and order[q] are the
\* similarities and the argsort of query number q.
RECURSIVE SearchQueries(_, _, _, _, _, _, _)
SearchQueries(so_far, q, qs, sim, order, k, cs) ==
    IF q > Len(qs) THEN so_far
    ELSE SearchQueries(
            AddTopMatches(so_far, SubSeq(order[q], 1, Min(k, Len(cs))), sim[q], qs[q], cs),
            q + 1, qs, sim, order, k, cs)

\* Mutant of PositionMap: the first match of a position is always kept.
RECURSIVE PositionMap_KeepsFirst(_, _)
PositionMap_KeepsFirst(acc, ms) ==
    IF ms = <<>> THEN acc
    ELSE LET match == Head(ms)
             same == {i \in 1..Len(acc) : /\ acc[i].char_start = match.char_start
                                          /\ acc[i].char_end = match.char_end}
         IN  IF same = {} THEN PositionMap_KeepsFirst(Append(acc, match), Tail(ms))
             ELSE PositionMap_KeepsFirst(acc, Tail(ms))

\* Lines 183-191: the position map after the matches ms, as the list of its
\* values in insertion order (a dict keeps the place of a key's first insert).
RECURSIVE PositionMap(_, _)
PositionMap(acc, ms) ==
    IF ms = <<>> THEN acc
    ELSE LET match == Head(ms)
             same == {i \in 1..Len(acc) : /\ acc[i].char_start = match.char_start
                                          /\ acc[i].char_end = match.char_end}
         IN  IF same = {} THEN PositionMap(Append(acc, match), Tail(ms))
             ELSE LET i == CHOOSE x \in same : TRUE
                  IN  IF match.similarity_score > acc[i].similarity_score
                      THEN PositionMap([acc EXCEPT ![i] = match], Tail(ms))
                      ELSE PositionMap(acc, Tail(ms))

\* _deduplicate_by_position(matches)
DeduplicateByPosition(ms) == PositionMap(<<>>, ms)

InitSemantic ==
    /\ pc = "semantic_call"
    /\ JobIdle
    /\ text \in Docs
    /\ queries \in QueryLists
    /\ top_k \in TopKs
    /\ chunks = <<>>
    /\ all_matches = <<>>
    /\ sem_out = <<>>
    /\ DedupIdle
    /\ MergeIdle
    /\ BatchIdle
    /\ ExcerptIdle
    /\ KeywordIdle

\* SemanticSearcher.search(text, queries, top_k): the similarities are the
\* embedding model's and are drawn from Similarities.
Search ==
    /\ pc = "semantic_call"
    /\ pc' = "semantic_done"
    /\ LET cs == CreateChunks(text, ChunkSize, ChunkOverlap)
       IN  /\ chunks' = cs
           /\ IF cs = <<>>
              THEN /\ all_matches' = <<>>
                   /\ sem_out' = <<>>
              ELSE \E sim \in [1..Len(queries) -> [1..Len(cs) -> Similarities]] :
                   \E order \in [1..Len(queries) -> Perms(Len(cs))] :
                      /\ \A q \in 1..Len(queries) : order[q] \in ArgsortsDescending(sim[q])
                      /\ all_matches' = SearchQueries(<<>>, 1, queries, sim, order, top_k, cs)
                      /\ sem_out' = DeduplicateByPosition(all_matches')
    /\ UNCHANGED <<text, queries, top_k, dedupVars, mergeVars, batchVars, excerptVars, keywordVars,
                   jobVars>>

NextSemantic == Search

SpecSemantic == InitSemantic /\ [][NextSemantic]_vars

(***************************************************************************)
(* Claims about SemanticSearcher.                                          *)
(***************************************************************************)
\* C6: every chunk of _create_chunks, and so every span search returns, has
\* 0 <= start < end <= len(document) and text = document[start:end].
C6_ChunksAreValidSpans ==
    pc = "semantic_done" =>
        /\ \A i \in 1..Len(chunks) :
            /\ 0 <= chunks[i].start
            /\ chunks[i].start < chunks[i].end
            /\ chunks[i].end <= Len(text)
            /\ chunks[i].text = Slice(text, chunks[i].start, chunks[i].end)
        /\ \A i \in 1..Len(sem_out) :
            /\ 0 <= sem_out[i].char_start
            /\ sem_out[i].char_start < sem_out[i].char_end
            /\ sem_out[i].char_end <= Len(text)
            /\ sem_out[i].text = Slice(text, sem_out[i].char_start, sem_out[i].char_end)

\* C13: for the empty document _create_chunks returns no chunk and search
\* returns no span, whatever the queries, and search does return (the call
\* is enabled and ends in semantic_done).
C13_EmptyDocumentNoSpans ==
    text = <<>> =>
        /\ pc = "semantic_call" => ENABLED Search
        /\ pc = "semantic_done" => (chunks = <<>> /\ sem_out = <<>>)

\* C13 witness: the empty document was searched with two queries.
C13_Witness ==
    /\ pc = "semantic_done"
    /\ text = <<>>
    /\ Len(queries) = 2
    /\ sem_out = <<>>

\* C14: for every document shorter than the chunk size, whatever its
\* paragraphs, _create_chunks returns exactly one chunk.
C14_ShortDocumentOneChunk ==
    (pc = "semantic_done" /\ Len(text) < ChunkSize) => Len(chunks) = 1

\* C14 as amended: for every document shorter than the chunk size,
\* _create_chunks returns exactly one chunk when the document has a character
\* that is not whitespace, and no chunk when it is empty or blank.
C14_ShortDocumentOneChunkUnlessBlank ==
    (pc = "semantic_done" /\ Len(text) < ChunkSize) =>
        Len(chunks) = (IF Strip(text) = <<>> THEN 0 ELSE 1)

\* C14 witness: a document shorter than the chunk size with two paragraphs
\* gave one chunk.
C14_Witness ==
    /\ pc = "semantic_done"
    /\ Len(text) < ChunkSize
    /\ Len(SplitParagraphs(text)) = 2
    /\ \A i \in 1..2 : Strip(SplitParagraphs(text)[i]) # <<>>
    /\ Len(chunks) = 1

SamePosition(a, b) == a.char_start = b.char_start /\ a.char_end = b.char_end

\* C15: the list _deduplicate_by_position returns has pairwise distinct
\* (char_start, char_end) positions, holds every position of its input, and
\* the span kept for a position is one of the input spans of that position
\* (score, sector and matched_query of one occurrence) with the highest
\* similarity_score among them.
C15_HighestScorePerPosition ==
    pc = "semantic_done" =>
        /\ \A i, j \in 1..Len(sem_out) : SamePosition(sem_out[i], sem_out[j]) => i = j
        /\ \A k \in 1..Len(all_matches) :
            \E i \in 1..Len(sem_out) : SamePosition(sem_out[i], all_matches[k])
        /\ \A i \in 1..Len(sem_out) :
            /\ \E k \in 1..Len(all_matches) : all_matches[k] = sem_out[i]
            /\ \A k \in 1..Len(all_matches) :
                SamePosition(sem_out[i], all_matches[k]) =>
                    all_matches[k].similarity_score <= sem_out[i].similarity_score

\* C15 witness: two queries matched one position, the later with the higher
\* score, and the span of the later query was kept.
C15_Witness ==
    /\ pc = "semantic_done"
    /\ \E k, l \in 1..Len(all_matches) :
        /\ k < l
        /\ SamePosition(all_matches[k], all_matches[l])
        /\ all_matches[k].similarity_score < all_matches[l].similarity_score
        /\ \E i \in 1..Len(sem_out) : sem_out[i] = all_matches[l]

(***************************************************************************)
(* keyword_search.py: KeywordSearcher                                      *)
(***************************************************************************)
\* The limits of a context window (lines 109-111, 157-159, 169), the step of
\* _expand_context (lines 171-173), the fixed window of the fallback (lines
\* 141-142), the half width of a truncated context (line 161), and the
\* sentences taken before and after the match (line 124).
MinContextChars == 200

MaxContextChars == 1000

ExpandStep == 100

FallbackWindow == 300

TruncateHalf == 500

SentencesBefore == 3

SentencesAfter == 3

\* Bounds of the documents: at most MaxKeywordBlocks blocks, a block being a
\* word, a plural s, a blank, a blank line, or a filler word of FillerLen or
\* LongFillerLen characters.
MaxKeywordBlocks == 3

FillerLen == 200

LongFillerLen == 1000

FloodWord == <<"f", "l", "o", "o", "d">>

RiskWord == <<"r", "i", "s", "k">>

KeywordDocBlocks ==
    {FloodWord, RiskWord, <<"s">>, <<" ">>, <<"\n", "\n">>,
     RunOf("x", FillerLen), RunOf("x", LongFillerLen)}

KeywordDocs == {Concat(bs) : bs \in SeqsUpTo(KeywordDocBlocks, MaxKeywordBlocks)}

\* The keyword lists: none, one word, and an inflected capitalised form
\* followed by its base form and a two-word phrase.
KeywordListsOfSearcher ==
    {<<>>,
     <<FloodWord>>,
     <<<<"F">> \o Tail(FloodWord) \o <<"s">>, FloodWord, FloodWord \o <<" ">> \o RiskWord>>}

\* The scenario of two paragraphs: "Para A about floods." (20 characters),
\* a blank line, and "Para B discusses flooding risk ... windowing rule."
\* (187 characters), searched with the keywords flood and flooding.
ScenarioParagraphA ==
    <<"P", "a", "r", "a", " ", "A", " ", "a", "b", "o", "u", "t", " ", "f",
      "l", "o", "o", "d", "s", ".">>

ScenarioParagraphB ==
    <<"P", "a", "r", "a", " ", "B", " ", "d", "i", "s", "c", "u", "s", "s",
      "e", "s", " ", "f", "l", "o", "o", "d", "i", "n", "g", " ", "r", "i",
      "s", "k", " ", "i", "n", " ", "d", "e", "p", "t", "h", " ", "w", "i",
      "t", "h", " ", "e", "n", "o", "u", "g", "h", " ", "a", "d", "d", "i",
      "t", "i", "o", "n", "a", "l", " ", "w", "o", "r", "d", "s", " ", "t",
      "o", " ", "e", "x", "c", "e", "e", "d", " ", "t", "w", "o", " ", "h",
      "u", "n", "d", "r", "e", "d", " ", "c", "h", "a", "r", "a", "c", "t",
      "e", "r", "s", " ", "s", "o", " ", "t", "h", "a", "t", " ", "i", "t",
      " ", "s", "a", "t", "i", "s", "f", "i", "e", "s", " ", "t", "h", "e",
      " ", "m", "i", "n", "i", "m", "u", "m", " ", "e", "x", "c", "e", "r",
      "p", "t", " ", "l", "e", "n", "g", "t", "h", " ", "b", "o", "u", "n",
      "d", " ", "r", "e", "q", "u", "i", "r", "e", "d", " ", "b", "y", " ",
      "t", "h", "e", " ", "w", "i", "n", "d", "o", "w", "i", "n", "g", " ",
      "r", "u", "l", "e", ".">>

ScenarioDoc == ScenarioParagraphA \o <<"\n", "\n">> \o ScenarioParagraphB

\* A document whose first paragraph is indented by one blank and is ExpandStep
\* characters long, followed by a second paragraph.
IndentedDoc ==
    <<" ">> \o FloodWord \o <<" ">> \o RunOf("x", ExpandStep - Len(FloodWord) - 2)
        \o <<"\n", "\n">> \o RunOf("x", FillerLen)

ScenarioKeywords == <<FloodWord, FloodWord \o <<"i", "n", "g">>>>

\* The elements of a set of integers in ascending order.
RECURSIVE Ascending(_)
Ascending(S) ==
    IF S = {} THEN <<>>
    ELSE LET m == CHOOSE x \in S : \A y \in S : x <= y
         IN  <<m>> \o Ascending(S \ {m})

\* The words of s as ranges [start, end) of 0-based positions: the maximal
\* runs of characters that are not whitespace.
WordSpans(s) ==
    LET starts == Ascending({p \in 0..(Len(s) - 1) :
                                ~ IsSpace(s[p + 1]) /\ (p = 0 \/ IsSpace(s[p]))})
        ends == Ascending({q \in 1..Len(s) :
                                ~ IsSpace(s[q]) /\ (q = Len(s) \/ IsSpace(s[q + 1]))})
    IN  [i \in 1..Len(starts) |-> <<starts[i], ends[i]>>]

\* str.split()
SplitWords(s) ==
    LET spans == WordSpans(s)
    IN  [i \in 1..Len(spans) |-> Slice(s, spans[i][1], spans[i][2])]

IsPunct(c) == c = "."

\* The tokens of s as ranges [start, end): a full stop is a token of its own,
\* and the other tokens are the maximal runs without whitespace and full stop.
TokenSpans(s) ==
    LET starts == Ascending({p \in 0..(Len(s) - 1) :
                                /\ ~ IsSpace(s[p + 1])
                                /\ \/ p = 0
                                   \/ IsSpace(s[p]) \/ IsPunct(s[p]) \/ IsPunct(s[p + 1])})
        ends == Ascending({q \in 1..Len(s) :
                                /\ ~ IsSpace(s[q])
                                /\ \/ q = Len(s)
                                   \/ IsSpace(s[q + 1]) \/ IsPunct(s[q + 1]) \/ IsPunct(s[q])})
    IN  [i \in 1..Len(starts) |-> <<starts[i], ends[i]>>]

\* nltk's word_tokenize on a text of letters, whitespace and full stops that
\* end a sentence.
WordTokenize(s) ==
    LET spans == TokenSpans(s)
    IN  [i \in 1..Len(spans) |-> Slice(s, spans[i][1], spans[i][2])]

\* " ".join(words)
RECURSIVE JoinWords(_)
JoinWords(words) ==
    IF words = <<>> THEN <<>>
    ELSE IF Len(words) = 1 THEN words[1]
    ELSE words[1] \o <<" ">> \o JoinWords(Tail(words))

\* str.find(sub, from): the least position >= from where sub starts, or -1.
Find(s, sub, from) ==
    LET hits == {p \in from..(Len(s) - Len(sub)) :
                    /\ sub = <<>> \/ s[p + 1] = sub[1]
                    /\ Slice(s, p, p + Len(sub)) = sub}
    IN  IF hits = {} THEN -1 ELSE CHOOSE p \in hits : \A q \in hits : p <= q

\* _lemmatize_word(word): the shortest of the WordNet lemmas of the lowered,
\* stripped word as noun, verb and adjective.  On the model's vocabulary
\* floods and flooding have the lemma flood, risks has the lemma risk, and no
\* other word has a lemma that is a pattern, so it stands for itself.
LemmatizeWord(word) ==
    LET w == Strip(Lower(word))
    IN  IF w = FloodWord \o <<"s">> \/ w = FloodWord \o <<"i", "n", "g">> THEN FloodWord
        ELSE IF w = RiskWord \o <<"s">> THEN RiskWord
        ELSE w

\* Lines 41-55: the pattern key of a keyword.
PatternKey(keyword) ==
    LET words == SplitWords(Lower(keyword))
    IN  IF Len(words) = 1 THEN LemmatizeWord(words[1])
        ELSE JoinWords([i \in 1..Len(words) |-> LemmatizeWord(words[i])])

\* _create_keyword_patterns(): the dict pattern -> original keywords, as the
\* list of its items in insertion order.
RECURSIVE CreateKeywordPatterns(_, _)
CreateKeywordPatterns(patterns, kws) ==
    IF kws = <<>> THEN patterns
    ELSE LET key == PatternKey(Head(kws))
             same == {i \in 1..Len(patterns) : patterns[i].pattern = key}
         IN  IF same = {}
             THEN CreateKeywordPatterns(
                    Append(patterns, [pattern |-> key, original_keywords |-> <<Head(kws)>>]),
                    Tail(kws))
             ELSE LET i == CHOOSE x \in same : TRUE
                  IN  CreateKeywordPatterns(
                        [patterns EXCEPT ![i].original_keywords = Append(@, Head(kws))],
                        Tail(kws))

\* Line 80: the position from which the word number i (from 0) is looked for.
RECURSIVE FindOffset(_, _)
FindOffset(words, i) ==
    IF i = 0 THEN 0 ELSE FindOffset(words, i - 1) + Len(words[i]) + 1

\* Lines 74-83: the occurrences of a one-word pattern, from word number i on.
RECURSIVE SingleWordMatches(_, _, _, _, _)
SingleWordMatches(text_lower, words, pattern, keyword, i) ==
    IF i > Len(words) THEN <<>>
    ELSE LET word == words[i]
             start == Find(text_lower, word, FindOffset(words, i - 1))
             rest == SingleWordMatches(text_lower, words, pattern, keyword, i + 1)
         IN  IF LemmatizeWord(word) = pattern /\ start # -1
             THEN <<[start |-> start, end |-> start + Len(word), keyword |-> keyword]>> \o rest
             ELSE rest

\* Lines 86-91: the matches of \bw1\s+w2...\b, left to right and not
\* overlapping: pattern_words as consecutive tokens of the text (two tokens
\* that are words and follow each other have only whitespace between them).
RECURSIVE PhraseMatches(_, _, _, _, _)
PhraseMatches(spans, words, pattern_words, keyword, i) ==
    LET n == Len(pattern_words)
    IN  IF i + n - 1 > Len(words) THEN <<>>
        ELSE IF \A k \in 1..n : words[i + k - 1] = pattern_words[k]
        THEN <<[start |-> spans[i][1], end |-> spans[i + n - 1][2], keyword |-> keyword]>>
             \o PhraseMatches(spans, words, pattern_words, keyword, i + n)
        ELSE PhraseMatches(spans, words, pattern_words, keyword, i + 1)

\* Mutant of PatternMatches: every pattern is reported at position 0, without
\* a look at the text.
PatternMatches_AlwaysAtZero(text_lower, item) ==
    <<[start |-> 0, end |-> 0, keyword |-> item.original_keywords[1]]>>

\* Lines 66-91: the occurrences of one pattern.
PatternMatches(text_lower, item) ==
    LET pattern_words == SplitWords(item.pattern)
        representative_keyword == item.original_keywords[1]
        words == WordTokenize(text_lower)
    IN  IF Len(pattern_words) = 1
        THEN SingleWordMatches(text_lower, words, item.pattern, representative_keyword, 1)
        ELSE PhraseMatches(TokenSpans(text_lower), words, pattern_words,
                           representative_keyword, 1)

\* _find_keyword_positions(text): a list of (start, end, keyword).
RECURSIVE FindKeywordPositions(_, _)
FindKeywordPositions(doc, patterns) ==
    IF patterns = <<>> THEN <<>>
    ELSE PatternMatches(Lower(doc), Head(patterns))
         \o FindKeywordPositions(doc, Tail(patterns))

\* Mutant of ExpandRange: the range is never expanded.
ExpandRange_NoExpansion(n, start, end) == <<start, end>>

\* _expand_context, lines 169-173: the range after the loop.
RECURSIVE ExpandRange(_, _, _)
ExpandRange(n, start, end) ==
    IF (end - start) < MinContextChars /\ (start > 0 \/ end < n)
    THEN ExpandRange(n,
                     IF start > 0 THEN Max(0, start - ExpandStep) ELSE start,
                     IF end < n THEN Min(n, end + ExpandStep) ELSE end)
    ELSE <<start, end>>

\* _expand_context(text, start, end)
ExpandContext(doc, start, end) ==
    LET r == ExpandRange(Len(doc), start, end)
        expanded_text == Strip(Slice(doc, r[1], r[2]))
    IN  [text |-> expanded_text, start |-> r[1], end |-> r[1] + Len(expanded_text)]

\* nltk's sent_tokenize on the model's vocabulary (no abbreviations): a
\* sentence ends at a full stop that is followed by whitespace and at the end
\* of the text without its trailing whitespace; the first sentence starts at
\* position 0 and every other one at the first character that is not
\* whitespace after the sentence before it.  A blank text has no sentence.
SentTokenize(doc) ==
    LET n == Len(doc) - TrailingSpaces(doc, 0)
        ends == Ascending({q \in 1..n : q = n \/ (IsPunct(doc[q]) /\ IsSpace(doc[q + 1]))})
        StartOf(k) ==
            IF k = 1 THEN 0
            ELSE (CHOOSE p \in (ends[k - 1] + 1)..n :
                    /\ ~ IsSpace(doc[p])
                    /\ \A r \in (ends[k - 1] + 1)..(p - 1) : IsSpace(doc[r])) - 1
    IN  IF n = 0 THEN <<>>
        ELSE [k \in 1..Len(ends) |-> Slice(doc, StartOf(k), ends[k])]

\* Lines 129-137: the index (from 0) of the first sentence whose range, as
\* the loop counts it, holds match_pos; -1 when there is none.
RECURSIVE TargetSentence(_, _, _, _)
TargetSentence(sentences, idx, current_pos, match_pos) ==
    IF idx >= Len(sentences) THEN -1
    ELSE LET sent_end == current_pos + Len(sentences[idx + 1])
         IN  IF current_pos <= match_pos /\ match_pos <= sent_end THEN idx
             ELSE TargetSentence(sentences, idx + 1, sent_end + 1, match_pos)

\* Line 153: sum(len(s) + 1 for s in sentences[:start_idx])
RECURSIVE SentenceOffset(_, _)
SentenceOffset(sentences, start_idx) ==
    IF start_idx = 0 THEN 0
    ELSE SentenceOffset(sentences, start_idx - 1) + Len(sentences[start_idx]) + 1

\* _extract_by_sentences(text, match_pos, before, after)
ExtractBySentences(doc, match_pos, before, after) ==
    LET sentences == SentTokenize(doc)
        target_idx == TargetSentence(sentences, 0, 0, match_pos)
    IN  IF target_idx = -1
        THEN LET start == Max(0, match_pos - FallbackWindow)
                 end == Min(Len(doc), match_pos + FallbackWindow)
             IN  [text |-> Slice(doc, start, end), start |-> start, end |-> end]
        ELSE LET start_idx == Max(0, target_idx - before)
                 end_idx == Min(Len(sentences), target_idx + after + 1)
                 context_text == JoinWords(Slice(sentences, start_idx, end_idx))
                 char_start == SentenceOffset(sentences, start_idx)
                 char_end == char_start + Len(context_text)
             IN  IF Len(context_text) < MinContextChars
                 THEN ExpandContext(doc, char_start, char_end)
                 ELSE IF Len(context_text) > MaxContextChars
                 THEN LET match_offset == match_pos - char_start
                          truncated == Slice(context_text,
                                             Max(0, match_offset - TruncateHalf),
                                             match_offset + TruncateHalf)
                      IN  [text |-> truncated, start |-> char_start,
                           end |-> char_start + Len(truncated)]
                 ELSE [text |-> context_text, start |-> char_start, end |-> char_end]

\* Lines 100-118: the first paragraph whose range [current_pos, para_end]
\* holds match_start, with its current_pos; found is FALSE when there is none.
RECURSIVE ParagraphOf(_, _, _)
ParagraphOf(paragraphs, current_pos, match_start) ==
    IF paragraphs = <<>> THEN [found |-> FALSE, para |-> <<>>, current_pos |-> current_pos]
    ELSE LET para_end == current_pos + Len(Head(paragraphs))
         IN  IF current_pos <= match_start /\ match_start <= para_end
             THEN [found |-> TRUE, para |-> Head(paragraphs), current_pos |-> current_pos]
             ELSE ParagraphOf(Tail(paragraphs), para_end + 2, match_start)

\* _extract_context(text, match_start, match_end)
ExtractContext(doc, match_start, match_end) ==
    LET p == ParagraphOf(SplitParagraphs(doc), 0, match_start)
        para_clean == Strip(p.para)
        para_end == p.current_pos + Len(p.para)
    IN  IF ~ p.found THEN ExtractBySentences(doc, match_start, SentencesBefore, SentencesAfter)
        ELSE IF MinContextChars <= Len(para_clean) /\ Len(para_clean) <= MaxContextChars
        THEN [text |-> para_clean, start |-> p.current_pos, end |-> para_end]
        ELSE IF Len(para_clean) < MinContextChars
        THEN ExpandContext(doc, p.current_pos, para_end)
        ELSE ExtractBySentences(doc, match_start, SentencesBefore, SentencesAfter)

\* Lines 189-195: position_keywords, the dict (start, end) -> keywords, as the
\* list of its items in insertion order.
RECURSIVE GroupByPosition(_, _)
GroupByPosition(position_keywords, positions) ==
    IF positions = <<>> THEN position_keywords
    ELSE LET p == Head(positions)
             same == {i \in 1..Len(position_keywords) :
                         /\ position_keywords[i].start = p.start
                         /\ position_keywords[i].end = p.end}
         IN  IF same = {}
             THEN GroupByPosition(
                    Append(position_keywords,
                           [start |-> p.start, end |-> p.end, keywords |-> <<p.keyword>>]),
                    Tail(positions))
             ELSE LET i == CHOOSE x \in same : TRUE
                  IN  GroupByPosition(
                        [position_keywords EXCEPT ![i].keywords = Append(@, p.keyword)],
                        Tail(positions))

\* Lines 198-224: one match per position whose start was not seen before.
RECURSIVE ContextMatches(_, _, _, _)
ContextMatches(ms, seen_positions, position_keywords, doc) ==
    IF position_keywords = <<>> THEN ms
    ELSE LET g == Head(position_keywords)
         IN  IF g.start \in seen_positions
             THEN ContextMatches(ms, seen_positions, Tail(position_keywords), doc)
             ELSE LET c == ExtractContext(doc, g.start, g.end)
                  IN  ContextMatches(
                        Append(ms, [chunk_id |-> <<"keyword", Len(ms)>>,
                                    text |-> c.text,
                                    matched_keywords |-> Range(g.keywords),
                                    char_start |-> c.start,
                                    char_end |-> c.end]),
                        seen_positions \cup {g.start},
                        Tail(position_keywords), doc)

InitKeyword ==
    /\ pc = "keyword_call"
    /\ JobIdle
    /\ text \in KeywordDocs \cup {ScenarioDoc, IndentedDoc}
    /\ keywords \in KeywordListsOfSearcher \cup {ScenarioKeywords}
    /\ keyword_positions = <<>>
    /\ DedupIdle
    /\ MergeIdle
    /\ SemIdle
    /\ BatchIdle
    /\ ExcerptIdle

\* KeywordSearcher(keywords).search(text)
KeywordSearch ==
    /\ pc = "keyword_call"
    /\ pc' = "keyword_done"
    /\ LET positions == FindKeywordPositions(text, CreateKeywordPatterns(<<>>, keywords))
       IN  /\ keyword_positions' = positions
           /\ IF positions = <<>>
              THEN /\ matches' = <<>>
                   /\ merged' = <<>>
              ELSE LET ms == ContextMatches(<<>>, {}, GroupByPosition(<<>>, positions), text)
                   IN  /\ matches' = ms
                       /\ merged' = MergeOverlapping(ms)
    /\ UNCHANGED <<text, keywords, dedupVars, semVars, batchVars, excerptVars, jobVars>>

NextKeyword == KeywordSearch

SpecKeyword == InitKeyword /\ [][NextKeyword]_vars

(***************************************************************************)
(* Claims about KeywordSearcher.search.                                    *)
(***************************************************************************)
\* C7: every span search returns has 0 <= char_start < char_end <=
\* len(document) and a text that is not empty, and every context window
\* (_extract_context, _extract_by_sentences, _expand_context) has a text
\* equal to document[start:end].
C7_KeywordSpansValid ==
    pc = "keyword_done" =>
        /\ \A i \in 1..Len(merged) :
            /\ 0 <= merged[i].char_start
            /\ merged[i].char_start < merged[i].char_end
            /\ merged[i].char_end <= Len(text)
            /\ merged[i].text # <<>>
        /\ \A i \in 1..Len(matches) :
            matches[i].text = Slice(text, matches[i].char_start, matches[i].char_end)

\* The returned spans whose range holds the occurrence p.
SpansHolding(p) ==
    {i \in 1..Len(merged) : /\ merged[i].char_start <= p.start
                            /\ p.end <= merged[i].char_end}

\* C9: every occurrence found by the occurrence scan lies inside the range
\* of exactly one returned span.
C9_OccurrenceInExactlyOneSpan ==
    pc = "keyword_done" =>
        \A k \in 1..Len(keyword_positions) :
            Cardinality(SpansHolding(keyword_positions[k])) = 1

\* No span of the list overlaps a span that starts later by more than the
\* merge threshold of its own length.
NoPairOverThreshold(spans) ==
    \A i, j \in 1..Len(spans) :
        spans[i].char_start < spans[j].char_start =>
            ~ RatioGT(MergeOverlapRatio(spans[i], spans[j]), merge_threshold)

\* C4: in the output of KeywordSearcher.search, and likewise of
\* SemanticSearcher.search, no two spans, adjacent or not, overlap by more
\* than 0.5 of the length of the earlier span.
C4_NoPairOverHalf ==
    /\ pc = "keyword_done" => NoPairOverThreshold(merged)
    /\ pc = "semantic_done" => NoPairOverThreshold(sem_out)

(***************************************************************************)
(* Claims about the scenario of two paragraphs.                            *)
(***************************************************************************)
InScenario ==
    /\ pc = "keyword_done"
    /\ text = ScenarioDoc
    /\ keywords = ScenarioKeywords

\* C12: in the scenario search finds two occurrences, windows each to its own
\* paragraph (the second paragraph as it is, because its length qualifies,
\* the first expanded), and returns two spans.
C12_TwoSpansOwnParagraphs ==
    InScenario =>
        /\ Len(keyword_positions) = 2
        /\ Len(matches) = 2
        /\ matches[2].text = ScenarioParagraphB
        /\ matches[2].char_start = Len(ScenarioParagraphA) + 2
        /\ matches[1].char_end <= matches[2].char_start
        /\ Len(merged) = 2

\* C12 as amended: in the scenario search finds the two occurrences [13, 19)
\* and [39, 47), both for the keyword flood; both paragraphs are shorter than
\* 200 characters (20 and 187), so both windows are expanded to the whole
\* document [0, 209), and the sweep merges them: one span [0, 209) with the
\* keyword flood is returned.
C12_BothExpandedOneSpan ==
    InScenario =>
        /\ keyword_positions = <<[start |-> 13, end |-> 19, keyword |-> FloodWord],
                                 [start |-> 39, end |-> 47, keyword |-> FloodWord]>>
        /\ Len(ScenarioParagraphB) < MinContextChars
        /\ Len(matches) = 2
        /\ \A i \in 1..2 : /\ matches[i].char_start = 0
                           /\ matches[i].char_end = Len(ScenarioDoc)
                           /\ matches[i].text = ScenarioDoc
        /\ Len(merged) = 1
        /\ merged[1].char_start = 0
        /\ merged[1].char_end = Len(ScenarioDoc)
        /\ merged[1].matched_keywords = {FloodWord}

\* C12 witness: the scenario was searched and one span came back.
C12_Witness ==
    /\ InScenario
    /\ Len(keyword_positions) = 2
    /\ Len(merged) = 1

\* C16: search returns the empty list when the keyword list is empty
\* (whatever the document) and when the document is the empty string
\* (whatever the keywords); the call has no other outcome.
C16_EmptyKeywordsOrDocument ==
    (pc = "keyword_done" /\ (keywords = <<>> \/ text = <<>>)) =>
        (keyword_positions = <<>> /\ matches = <<>> /\ merged = <<>>)

\* C16 witness: the empty document was searched with three keywords.
C16_Witness ==
    /\ pc = "keyword_done"
    /\ text = <<>>
    /\ Len(keywords) = 3
    /\ merged = <<>>

\* C20: every span search returns has a text of at most MaxContextChars
\* characters, and of at least MinContextChars characters unless the
\* expansion stopped at both edges of the document (the window starts at 0
\* and its text is the whole document without its outer whitespace).
C20_TextLengthBounded ==
    pc = "keyword_done" =>
        \A i \in 1..Len(merged) :
            /\ Len(merged[i].text) <= MaxContextChars
            /\ \/ Len(merged[i].text) >= MinContextChars
               \/ /\ merged[i].char_start = 0
                  /\ merged[i].text = Strip(text)

\* C21: for every occurrence (start, end, keyword) the scan finds, two
\* occurrences with the same start and different ends included, the keyword
\* is in matched_keywords of some returned span.
C21_EveryKeywordCarried ==
    pc = "keyword_done" =>
        \A k \in 1..Len(keyword_positions) :
            \E i \in 1..Len(merged) :
                keyword_positions[k].keyword \in merged[i].matched_keywords

(***************************************************************************)
(* bedrock_classifier.py and run_results_processing.py: the ids that tie a *)
(* classification to the chunk it is attached to.                          *)
(***************************************************************************)
\* Bound: the number of chunks in the combined results.
MaxChunks == 6

\* AWS_CONFIG["batch_size"]
ConfiguredBatchSize == 5

BatchSizes == {1, 2, ConfiguredBatchSize}

\* The chunks of the combined results file; chunk i is named <<"chunk", i>>.
ChunkLists == {[i \in 1..n |-> <<"chunk", i>>] : n \in 0..MaxChunks}

\* Lines 157-160: range(0, len(chunks), batch_size) and chunks[i:i + batch_size].
BatchStarts(n, size) == {i \in 0..(n - 1) : i % size = 0}

BatchOf(cs, i, size) == Slice(cs, i, i + size)

\* Lines 168-191: request number batch_idx (0-based) carries the chunks of
\* its batch; its recordId, and the chunk_id the prompt tells the model to
\* answer with, are both "batch_<batch_idx>".
RequestOf(cs, batch_idx, size) ==
    [recordId |-> <<"batch", batch_idx>>,
     prompt_chunk_id |-> <<"batch", batch_idx>>,
     chunks |-> BatchOf(cs, batch_idx * size, size)]

\* prepare_batch_input(chunks, batch_size): the requests written to the file.
PrepareBatchInput(cs, size) ==
    [b \in 1..Cardinality(BatchStarts(Len(cs), size)) |-> RequestOf(cs, b - 1, size)]

\* Lines 51-54: batch_to_original maps "batch_<i>" to the i-th chunk (0-based).
BatchToOriginal(cs) == [id \in {<<"batch", i - 1>> : i \in 1..Len(cs)} |-> cs[id[2] + 1]]

\* Lines 62-81: one classification, enriched with the chunk its id maps to,
\* or passed on alone when the id maps to none.
Enrich(cs, classification) ==
    IF classification.chunk_id \in DOMAIN BatchToOriginal(cs)
    THEN [original_chunk |-> BatchToOriginal(cs)[classification.chunk_id],
          attached |-> TRUE,
          chunk_id |-> classification.chunk_id,
          classification |-> classification.classification]
    ELSE [original_chunk |-> <<"none", 0>>,
          attached |-> FALSE,
          chunk_id |-> classification.chunk_id,
          classification |-> classification.classification]

InitBatch ==
    /\ pc = "batch_prepare"
    /\ JobIdle
    /\ all_chunks \in ChunkLists
    /\ batch_size \in BatchSizes
    /\ requests = <<>>
    /\ classifications = <<>>
    /\ enriched_classifications = <<>>
    /\ DedupIdle
    /\ MergeIdle
    /\ SemIdle
    /\ TextIdle
    /\ ExcerptIdle
    /\ KeywordIdle

\* run_bedrock_classification.py: prepare_batch_input on all chunks.
PrepareBatch ==
    /\ pc = "batch_prepare"
    /\ pc' = "batch_classify"
    /\ requests' = PrepareBatchInput(all_chunks, batch_size)
    /\ UNCHANGED <<all_chunks, batch_size, classifications, enriched_classifications,
                   dedupVars, mergeVars, text, semVars, excerptVars, keywordVars,
                   jobVars>>

\* The answers of the model to a request: a classification that carries the
\* chunk_id the prompt asked for, a text that does not parse, or a
\* classification without the chunk_id field.
Answers == {"POSITIVE", "NEGATIVE", "unparsed", "no_chunk_id"}

\* The chunk_id run_results_processing reads from a classification that has
\* none: classification.get('chunk_id', '').
NoChunkId == <<"", 0>>

\* The batch job and parse_results: every request whose answer parses gives
\* one classification, in request order; an answer that does not parse is
\* skipped (lines 350-357).
ClassifyBatch ==
    /\ pc = "batch_classify"
    /\ pc' = "batch_process"
    /\ \E label \in [1..Len(requests) -> Answers] :
        LET RECURSIVE Parsed(_)
            Parsed(r) ==
                IF r > Len(requests) THEN <<>>
                ELSE IF label[r] = "unparsed" THEN Parsed(r + 1)
                ELSE IF label[r] = "no_chunk_id"
                THEN <<[chunk_id |-> NoChunkId,
                        classification |-> "POSITIVE"]>> \o Parsed(r + 1)
                ELSE <<[chunk_id |-> requests[r].prompt_chunk_id,
                        classification |-> label[r]]>> \o Parsed(r + 1)
        IN  classifications' = Parsed(1)
    /\ UNCHANGED <<all_chunks, batch_size, requests, enriched_classifications,
                   dedupVars, mergeVars, text, semVars, excerptVars, keywordVars,
                   jobVars>>

\* run_results_processing.main(): with no classification at all, line 91
\* divides by zero and nothing is saved.
ProcessResults ==
    /\ pc = "batch_process"
    /\ IF classifications = <<>>
       THEN /\ pc' = "batch_raised"
            /\ enriched_classifications' = <<>>
       ELSE /\ pc' = "batch_done"
            /\ enriched_classifications' =
                 [i \in 1..Len(classifications) |-> Enrich(all_chunks, classifications[i])]
    /\ UNCHANGED <<all_chunks, batch_size, requests, classifications,
                   dedupVars, mergeVars, text, semVars, excerptVars, keywordVars,
                   jobVars>>

NextBatch == PrepareBatch \/ ClassifyBatch \/ ProcessResults

SpecBatch == InitBatch /\ [][NextBatch]_vars

(***************************************************************************)
(* Claims about the re-attachment of classifications.                      *)
(***************************************************************************)
\* The chunks of the request whose recordId is id.
ChunksOfRequest(id) ==
    UNION {Range(requests[r].chunks) : r \in {x \in 1..Len(requests) : requests[x].recordId = id}}

\* C8: every classification is attached to an original chunk that was part
\* of the request whose id the classification carries, for every batch size.
C8_AttachedToChunkOfItsRequest ==
    pc = "batch_done" =>
        \A i \in 1..Len(enriched_classifications) :
            LET e == enriched_classifications[i]
            IN  e.attached => e.original_chunk \in ChunksOfRequest(e.chunk_id)

\* C17: a classification whose id maps to no original span is skipped: it
\* is not in the output, and every other classification is in the output,
\* attached, in order.
C17_BadRecordSkipped ==
    pc = "batch_done" =>
        /\ \A i \in 1..Len(enriched_classifications) : enriched_classifications[i].attached
        /\ Len(enriched_classifications) =
             Cardinality({i \in 1..Len(classifications) :
                            classifications[i].chunk_id \in DOMAIN BatchToOriginal(all_chunks)})

(***************************************************************************)
(* activity_classifier.py: deduplicate_excerpts                            *)
(***************************************************************************)
\* Bound: the number of records given to deduplicate_excerpts().
MaxRecords == 3

\* The texts of the records: empty, blank, equal up to case and blanks,
\* near-duplicates of different length, and unrelated texts.
ExcerptTexts ==
    {<<>>, <<" ">>, <<"a">>, <<"A", " ">>, <<"a", "b">>, <<"b", "a">>, <<"a", "b", "b">>}

\* The thresholds: 0, 0.5, the default 0.85, and 1.
DefaultSimilarityThreshold == <<17, 20>>

SimilarityThresholds == {<<0, 1>>, <<1, 2>>, DefaultSimilarityThreshold, <<1, 1>>}

RecordLists ==
    {[i \in 1..Len(s) |-> [chunk_id |-> <<"excerpt", i>>, text |-> s[i]]] :
        s \in SeqsUpTo(ExcerptTexts, MaxRecords)}

\* difflib.SequenceMatcher.find_longest_match without junk (autojunk only
\* acts on sequences of 200 elements or more): the longest block
\* a[i..i+k-1] = b[j..j+k-1]; of the longest, the one starting earliest in a,
\* and of those the one starting earliest in b.  <<0, 0, 0>> without a match.
LongestMatch(a, b) ==
    LET blocks == {ijk \in (1..Len(a)) \X (1..Len(b)) \X (1..Min(Len(a), Len(b))) :
                      /\ ijk[1] + ijk[3] - 1 <= Len(a)
                      /\ ijk[2] + ijk[3] - 1 <= Len(b)
                      /\ SubSeq(a, ijk[1], ijk[1] + ijk[3] - 1) = SubSeq(b, ijk[2], ijk[2] + ijk[3] - 1)}
        Better(x, y) ==
            \/ x[3] > y[3]
            \/ x[3] = y[3] /\ x[1] < y[1]
            \/ x[3] = y[3] /\ x[1] = y[1] /\ x[2] <= y[2]
    IN  IF blocks = {} THEN <<0, 0, 0>>
        ELSE CHOOSE x \in blocks : \A y \in blocks : Better(x, y)

\* The sum of the sizes of get_matching_blocks(): the longest match, then
\* the same to its left and to its right.
RECURSIVE MatchingCount(_, _)
MatchingCount(a, b) ==
    LET m == LongestMatch(a, b)
    IN  IF m[3] = 0 THEN 0
        ELSE m[3] + MatchingCount(SubSeq(a, 1, m[1] - 1), SubSeq(b, 1, m[2] - 1))
                  + MatchingCount(SubSeq(a, m[1] + m[3], Len(a)), SubSeq(b, m[2] + m[3], Len(b)))

\* SequenceMatcher(None, a, b).ratio(): 2 * matches / (len(a) + len(b)),
\* and 1.0 for two empty sequences.
SequenceRatio(a, b) ==
    IF Len(a) + Len(b) = 0 THEN <<1, 1>>
    ELSE <<2 * MatchingCount(a, b), Len(a) + Len(b)>>

\* Line 315: records with a text that is not blank.
RECURSIVE NonEmpty(_)
NonEmpty(rs) ==
    IF rs = <<>> THEN <<>>
    ELSE IF Len(Head(rs).text) > 0 /\ Len(Strip(Head(rs).text)) > 0
    THEN <<Head(rs)>> \o NonEmpty(Tail(rs))
    ELSE NonEmpty(Tail(rs))

\* Mutant of InsertByLength: an equally long record goes before the ones
\* already placed (a sort by length that is not stable).
RECURSIVE InsertByLength_TiesFirst(_, _)
InsertByLength_TiesFirst(sorted, r) ==
    IF sorted = <<>> THEN <<r>>
    ELSE IF Len(sorted[Len(sorted)].text) > Len(r.text) THEN Append(sorted, r)
    ELSE Append(InsertByLength_TiesFirst(SubSeq(sorted, 1, Len(sorted) - 1), r),
                sorted[Len(sorted)])

\* Line 326: sort(key=len(text), reverse=True) is stable: records of equal
\* length keep their order.
RECURSIVE InsertByLength(_, _)
InsertByLength(sorted, r) ==
    IF sorted = <<>> THEN <<r>>
    ELSE IF Len(sorted[Len(sorted)].text) >= Len(r.text) THEN Append(sorted, r)
    ELSE Append(InsertByLength(SubSeq(sorted, 1, Len(sorted) - 1), r),
                sorted[Len(sorted)])

RECURSIVE SortByLengthDescending(_)
SortByLengthDescending(rs) ==
    IF rs = <<>> THEN <<>>
    ELSE InsertByLength(SortByLengthDescending(SubSeq(rs, 1, Len(rs) - 1)), rs[Len(rs)])

\* Lines 333-343: result is similar to the retained record unique.
IsSimilar(result, unique, threshold) ==
    RatioGE(SequenceRatio(Lower(Strip(result.text)), Lower(Strip(unique.text))), threshold)

\* Mutant of SweepExcerpts: a duplicate takes the place of the record it is
\* similar to.
RECURSIVE SweepExcerpts_KeepsLatest(_, _, _)
SweepExcerpts_KeepsLatest(unique, rest, threshold) ==
    IF rest = <<>> THEN unique
    ELSE LET hits == {i \in 1..Len(unique) : IsSimilar(Head(rest), unique[i], threshold)}
         IN  IF hits # {}
             THEN SweepExcerpts_KeepsLatest(
                    [unique EXCEPT ![CHOOSE i \in hits : \A j \in hits : i <= j] = Head(rest)],
                    Tail(rest), threshold)
             ELSE SweepExcerpts_KeepsLatest(Append(unique, Head(rest)), Tail(rest), threshold)

\* Lines 332-353: the sweep over the sorted records.
RECURSIVE SweepExcerpts(_, _, _)
SweepExcerpts(unique, rest, threshold) ==
    IF rest = <<>> THEN unique
    ELSE IF \E i \in 1..Len(unique) : IsSimilar(Head(rest), unique[i], threshold)
    THEN SweepExcerpts(unique, Tail(rest), threshold)
    ELSE SweepExcerpts(Append(unique, Head(rest)), Tail(rest), threshold)

\* deduplicate_excerpts(results, similarity_threshold)
DeduplicateExcerpts(rs, threshold) ==
    LET non_empty == NonEmpty(rs)
    IN  IF non_empty = <<>> THEN <<>>
        ELSE SweepExcerpts(<<>>, SortByLengthDescending(non_empty), threshold)

InitExcerpts ==
    /\ pc = "excerpts_call"
    /\ JobIdle
    /\ results \in RecordLists
    /\ similarity_threshold \in SimilarityThresholds
    /\ unique_results = <<>>
    /\ rerun_results = <<>>
    /\ DedupIdle
    /\ MergeIdle
    /\ SemIdle
    /\ TextIdle
    /\ BatchIdle
    /\ KeywordIdle

CallDeduplicateExcerpts ==
    /\ pc = "excerpts_call"
    /\ pc' = "excerpts_done"
    /\ unique_results' = DeduplicateExcerpts(results, similarity_threshold)
    /\ UNCHANGED <<results, similarity_threshold, rerun_results,
                   dedupVars, mergeVars, text, semVars, batchVars, keywordVars,
                   jobVars>>

\* The function applied to the list it returned.
CallDeduplicateExcerptsAgain ==
    /\ pc = "excerpts_done"
    /\ pc' = "excerpts_rerun"
    /\ rerun_results' = DeduplicateExcerpts(unique_results, similarity_threshold)
    /\ UNCHANGED <<results, similarity_threshold, unique_results,
                   dedupVars, mergeVars, text, semVars, batchVars, keywordVars,
                   jobVars>>

NextExcerpts == CallDeduplicateExcerpts \/ CallDeduplicateExcerptsAgain

SpecExcerpts == InitExcerpts /\ [][NextExcerpts]_vars

(***************************************************************************)
(* Claims about deduplicate_excerpts.                                      *)
(***************************************************************************)
\* C10: deduplicate_excerpts applied to its own output returns the same
\* records in the same order, and no retained record has a similarity of at
\* least the threshold to a record retained before it.
C10_Idempotent ==
    /\ pc = "excerpts_rerun" => rerun_results = unique_results
    /\ pc \in {"excerpts_done", "excerpts_rerun"} =>
        \A j \in 1..Len(unique_results) : \A i \in 1..(j - 1) :
            ~ IsSimilar(unique_results[j], unique_results[i], similarity_threshold)

\* C10 witness: the first call dropped a duplicate and kept several records,
\* two of them of equal length, and the second call has run.
C10_Witness ==
    /\ pc = "excerpts_rerun"
    /\ Len(unique_results) >= 2
    /\ Len(unique_results) < Len(NonEmpty(results))
    /\ \E i \in 1..(Len(unique_results) - 1) :
        Len(unique_results[i].text) = Len(unique_results[i + 1].text)

\* The numbers of the records of the list rs that have the text t.
WithText(rs, t) == {i \in 1..Len(rs) : rs[i].text = t}

MaxRunBlocks == 3

KeywordParagraph == FloodWord \o <<" ">> \o RunOf("x", FillerLen)

RunBlocks == {KeywordParagraph, <<"\n", "\n">>, RunOf("a", LongParaLen)}

RunDocs == {Concat(bs) : bs \in SeqsUpTo(RunBlocks, MaxRunBlocks)}

InitRun ==
    /\ pc = "keyword_call"
    /\ JobIdle
    /\ text \in RunDocs
    /\ keywords = <<FloodWord>>
    /\ keyword_positions = <<>>
    /\ queries \in QueryLists
    /\ top_k \in TopKs
    /\ chunks = <<>>
    /\ all_matches = <<>>
    /\ sem_out = <<>>
    /\ DedupIdle
    /\ MergeIdle
    /\ BatchIdle
    /\ ExcerptIdle

\* run_keyword_search.py: the matches are saved, and run_semantic_search.py
\* starts on the same document.
SaveKeywordResults ==
    /\ pc = "keyword_done"
    /\ pc' = "semantic_call"
    /\ UNCHANGED <<dedupVars, mergeVars, text, semVars, batchVars, excerptVars, keywordVars,
                   jobVars>>

\* json_to_keyword_matches on the saved keyword matches.
JsonToKeywordMatches(ms) ==
    [i \in 1..Len(ms) |->
        [chunk_id |-> ms[i].chunk_id,
         char_start |-> ms[i].char_start,
         char_end |-> ms[i].char_end,
         matched_keywords |-> ListOfSet(ms[i].matched_keywords)]]

\* json_to_semantic_matches on the saved semantic matches.
JsonToSemanticMatches(ms) ==
    [i \in 1..Len(ms) |->
        [chunk_id |-> ms[i].chunk_id,
         char_start |-> ms[i].char_start,
         char_end |-> ms[i].char_end,
         similarity_score |-> ms[i].similarity_score]]

\* run_deduplication.py, lines 57-58 and process_pad_with_deduplication: the
\* saved matches of both searches are loaded and the deduplicator is built
\* with the threshold 0.5.
LoadResults ==
    /\ pc = "semantic_done"
    /\ pc' = "dedup_call"
    /\ keyword_matches' = JsonToKeywordMatches(merged)
    /\ semantic_matches' = JsonToSemanticMatches(sem_out)
    /\ UNCHANGED <<combined_before_sort, final_matches, dedup_raised, threshold_arg,
                   overlap_threshold, mergeVars, text, semVars, batchVars, excerptVars, keywordVars,
                   jobVars>>

NextRun ==
    \/ KeywordSearch
    \/ SaveKeywordResults
    \/ Search
    \/ LoadResults
    \/ Deduplicate

SpecRun == InitRun /\ [][NextRun]_vars

(***************************************************************************)
(* Claims about the run of one document.                                   *)
(***************************************************************************)
\* The chunk_ids of the spans of a list are pairwise distinct.
DistinctIds(spans) ==
    \A i, j \in 1..Len(spans) : i # j => spans[i].chunk_id # spans[j].chunk_id

\* C22: the chunk_ids of the list KeywordSearcher.search returns, of the list
\* SemanticSearcher.search returns, and of the list deduplicate returns when
\* given those two lists, are pairwise distinct within each list.
C22_IdsUnique ==
    /\ DistinctIds(merged)
    /\ DistinctIds(sem_out)
    /\ DistinctIds(final_matches)

\* C22 witness: the run returned a keyword span, two semantic spans, and a
\* reconciled list with a span of the keyword search and a span that only
\* the semantic search found.
C22_Witness ==
    /\ pc = "dedup_done"
    /\ Len(merged) >= 1
    /\ Len(sem_out) >= 2
    /\ \E i, j \in 1..Len(final_matches) :
        /\ final_matches[i].chunk_id[1] = "keyword"
        /\ final_matches[j].chunk_id[1] = "combined"

(***************************************************************************)
(* _final_dedup_pass and _merge_overlapping on the same list of ranges.    *)
(***************************************************************************)
InitSweeps ==
    /\ pc = "sweeps_call"
    /\ JobIdle
    /\ matches \in MatchLists
    /\ merged = <<>>
    /\ DedupIdle
    /\ SemIdle
    /\ TextIdle
    /\ BatchIdle
    /\ ExcerptIdle
    /\ KeywordIdle

\* KeywordSearcher._merge_overlapping(matches), and
\* CrossStoreDeduplicator(0.5)._final_dedup_pass on the same spans sorted by
\* position, each as the CombinedMatch deduplicate makes of it.
CallBothSweeps ==
    /\ pc = "sweeps_call"
    /\ pc' = "sweeps_done"
    /\ merged' = MergeOverlapping(matches)
    /\ final_matches' = FinalDedupPass(SortByStart(SeedKeywords(JsonToKeywordMatches(matches))))
    /\ UNCHANGED <<matches, keyword_matches, semantic_matches, combined_before_sort,
                   dedup_raised, threshold_arg, overlap_threshold, text, semVars,
                   batchVars, excerptVars, keywordVars, jobVars>>

NextSweeps == CallBothSweeps

SpecSweeps == InitSweeps /\ [][NextSweeps]_vars

\* The ranges of a list of spans, in list order.
RangesOf(spans) == [i \in 1..Len(spans) |-> <<spans[i].char_start, spans[i].char_end>>]

\* C25: on the same position-sorted list of ranges, _final_dedup_pass with the
\* threshold 0.5 and _merge_overlapping merge at the same steps and give the
\* same ranges.
C25_SweepsAgree ==
    pc = "sweeps_done" => RangesOf(final_matches) = RangesOf(merged)

(***************************************************************************)
(* bedrock_classifier.py and activity_classifier.py: the batch job, from   *)
(* prepare to parse.                                                       *)
(***************************************************************************)
Classifiers == {"BedrockBatchClassifier", "ActivityClassifier"}

\* The statuses monitor_job waits on by name (bedrock_classifier.py line 280,
\* activity_classifier.py line 198), in the order a job passes them.
WaitingStatuses == <<"Submitted", "Validating", "Scheduled", "InProgress">>

\* The statuses a job ends in: the two monitor_job returns on, and two more
\* that the service gives to a job that was stopped or ran out of time.
ReturnStatuses == {"Completed", "Failed"}

FinalStatuses == ReturnStatuses \cup {"Stopped", "Expired"}

\* The statuses a job in the status st may take next.
LaterStatuses(st) ==
    LET at == CHOOSE i \in 1..Len(WaitingStatuses) : WaitingStatuses[i] = st
    IN  {WaitingStatuses[i] : i \in (at + 1)..Len(WaitingStatuses)} \cup FinalStatuses

InitJob ==
    /\ pc = "run_prepare"
    /\ classifier \in Classifiers
    /\ job_status = "none"
    /\ response_status = "none"
    /\ results_file = "unset"
    /\ steps = <<>>
    /\ DedupIdle
    /\ MergeIdle
    /\ SemIdle
    /\ TextIdle
    /\ BatchIdle
    /\ ExcerptIdle
    /\ KeywordIdle

otherVars == <<dedupVars, mergeVars, text, semVars, batchVars, excerptVars, keywordVars>>

\* Step 1: prepare_batch_input / prepare_activity_input.
PrepareInput ==
    /\ pc = "run_prepare"
    /\ pc' = "run_submit"
    /\ steps' = Append(steps, "prepare")
    /\ UNCHANGED <<classifier, job_status, response_status, results_file, otherVars>>

\* Step 2: submit_batch_job / submit_activity_job creates the job.
SubmitJob ==
    /\ pc = "run_submit"
    /\ pc' = "run_monitor"
    /\ steps' = Append(steps, "submit")
    /\ job_status' = "Submitted"
    /\ UNCHANGED <<classifier, response_status, results_file, otherVars>>

\* Step 3: monitor_job is called.
CallMonitorJob ==
    /\ pc = "run_monitor"
    /\ pc' = "monitor_poll"
    /\ steps' = Append(steps, "monitor")
    /\ UNCHANGED <<classifier, job_status, response_status, results_file, otherVars>>

\* monitor_job, one pass of the loop up to the sleep: the status is read, and
\* the function returns on Completed and on Failed only.
PollJob ==
    /\ pc = "monitor_poll"
    /\ response_status' = job_status
    /\ pc' = IF job_status \in ReturnStatuses THEN "run_download" ELSE "monitor_sleep"
    /\ UNCHANGED <<classifier, job_status, results_file, steps, otherVars>>

\* monitor_job: time.sleep(poll_interval) is over.
SleepOver ==
    /\ pc = "monitor_sleep"
    /\ pc' = "monitor_poll"
    /\ UNCHANGED <<jobVars, otherVars>>

\* The service moves the job on; a final status is kept.
JobAdvances ==
    /\ job_status \in Range(WaitingStatuses)
    /\ job_status' \in LaterStatuses(job_status)
    /\ UNCHANGED <<pc, classifier, response_status, results_file, steps, otherVars>>

\* Step 4 of run_bedrock_batch_classification: download_results returns the
\* local path, or None when the output location lists no .out file.
DownloadResults ==
    /\ pc = "run_download"
    /\ classifier = "BedrockBatchClassifier"
    /\ pc' = "run_parse"
    /\ steps' = Append(steps, "download")
    /\ \E found \in BOOLEAN : results_file' = IF found THEN "file" ELSE "None"
    /\ UNCHANGED <<classifier, job_status, response_status, otherVars>>

\* Step 5 of run_bedrock_batch_classification: parse_results opens the path;
\* open(None) raises.
ParseResults ==
    /\ pc = "run_parse"
    /\ pc' = IF results_file = "None" THEN "run_raised" ELSE "run_done"
    /\ steps' = Append(steps, "parse")
    /\ UNCHANGED <<classifier, job_status, response_status, results_file, otherVars>>

\* ActivityClassifier.download_and_parse_results: returns [] when no output
\* file is listed, and otherwise downloads the file and parses it.
DownloadAndParseResults ==
    /\ pc = "run_download"
    /\ classifier = "ActivityClassifier"
    /\ pc' = "run_done"
    /\ \E found \in BOOLEAN :
        /\ results_file' = IF found THEN "file" ELSE "None"
        /\ steps' = IF found THEN steps \o <<"download", "parse">>
                    ELSE Append(steps, "download")
    /\ UNCHANGED <<classifier, job_status, response_status, otherVars>>

ClassifierStep ==
    \/ PrepareInput
    \/ SubmitJob
    \/ CallMonitorJob
    \/ PollJob
    \/ SleepOver
    \/ DownloadResults
    \/ ParseResults
    \/ DownloadAndParseResults

NextJob == ClassifierStep \/ JobAdvances

SpecJob == InitJob /\ [][NextJob]_vars

\* The classifier's process keeps running: a step it can take is taken.
SpecJobFair == SpecJob /\ WF_vars(ClassifierStep)

(***************************************************************************)
(* Claims about the batch job.                                             *)
(***************************************************************************)
MonitorReturned == pc \in {"run_download", "run_parse", "run_done", "run_raised"}

\* C29: if the job reaches a final status and keeps it, whatever that status
\* is, monitor_job returns; and it returns only after a poll that read a
\* final status.
C29_MonitorTerminates ==
    /\ (<>[](job_status \in FinalStatuses)) => <>MonitorReturned
    /\ [](MonitorReturned => response_status \in FinalStatuses)

\* Is step in the list of the steps called so far?
Called(step) == step \in Range(steps)

\* C30: in run_bedrock_batch_classification the steps are called in the order
\* prepare, submit, monitor, download, parse; download is called only after
\* monitoring ended with Completed, and parse only if moreover an output file
\* was found.
C30_DownloadOnlyAfterCompleted ==
    classifier = "BedrockBatchClassifier" =>
        /\ steps = SubSeq(<<"prepare", "submit", "monitor", "download", "parse">>, 1, Len(steps))
        /\ Called("download") => response_status = "Completed"
        /\ Called("parse") => (response_status = "Completed" /\ results_file = "file")

====
